---- MODULE Spec2Model ----
(***************************************************************************)
(* git-externals: the externals resolution and synchronisation engine.     *)
(*                                                                         *)
(* The model follows src/git_externals/git_externals.py (update, add,      *)
(* remove and the helpers they call) and src/git_externals/utils.py (the   *)
(* command runner and the link primitives).  git itself is an external     *)
(* collaborator: its commands are modelled by their effect on a checkout   *)
(* (see the section "git").                                                *)
(*                                                                         *)
(* Strings that the code compares, sorts or splits (sources, destinations) *)
(* are sequences of one-character strings; ord gives the code point that   *)
(* Python's string comparison uses.                                        *)
(***************************************************************************)
EXTENDS Integers, Sequences, FiniteSets, TLC

(***************************************************************************)
(* Bounds of the model.                                                    *)
(***************************************************************************)
\* number of update runs started in one behaviour
MaxRuns == 2
\* number of things the user does between updates in one behaviour: add,
\* remove, or the modification of a tracked file
MaxEdits == 1
\* number of times an update is killed in one behaviour
MaxKills == 1
\* number of symbolic links followed while resolving one path
MaxHops == 4

(***************************************************************************)
(* Strings.                                                                *)
(***************************************************************************)
Alphabet == {"-", ".", "/", "A", "B", "a", "b", "c", "e", "f", "g", "h", "i", "j", "l",
             "n", "o", "p", "r", "s", "t"}

ord(c) ==
  CASE c = "-" -> 45
    [] c = "." -> 46
    [] c = "/" -> 47
    [] c = "A" -> 65
    [] c = "B" -> 66
    [] c = "a" -> 97
    [] c = "b" -> 98
    [] c = "c" -> 99
    [] c = "e" -> 101
    [] c = "f" -> 102
    [] c = "g" -> 103
    [] c = "h" -> 104
    [] c = "i" -> 105
    [] c = "j" -> 106
    [] c = "l" -> 108
    [] c = "n" -> 110
    [] c = "o" -> 111
    [] c = "p" -> 112
    [] c = "r" -> 114
    [] c = "s" -> 115
    [] c = "t" -> 116

\* s < t for Python strings: lexicographic by code point
RECURSIVE StrLess(_, _)
StrLess(s, t) ==
  IF t = <<>> THEN FALSE
  ELSE IF s = <<>> THEN TRUE
  ELSE IF ord(s[1]) # ord(t[1]) THEN ord(s[1]) < ord(t[1])
  ELSE StrLess(Tail(s), Tail(t))

\* t.startswith(s)
StartsWith(t, s) == Len(s) <= Len(t) /\ SubSeq(t, 1, Len(s)) = s

Front(s) == SubSeq(s, 1, Len(s) - 1)
Last(s) == s[Len(s)]

RECURSIVE SplitAcc(_, _, _)
SplitAcc(s, cur, acc) ==
  IF s = <<>> THEN Append(acc, cur)
  ELSE IF s[1] = "/" THEN SplitAcc(Tail(s), <<>>, Append(acc, cur))
  ELSE SplitAcc(Tail(s), Append(cur, s[1]), acc)

\* s.split('/')
Split(s) == SplitAcc(s, <<>>, <<>>)

RECURSIVE Join(_)
\* '/'.join(comps)
Join(comps) ==
  IF comps = <<>> THEN <<>>
  ELSE IF Len(comps) = 1 THEN comps[1]
  ELSE comps[1] \o <<"/">> \o Join(Tail(comps))

DOT == <<".">>
DOTDOT == <<".", ".">>

RECURSIVE NormAcc(_, _)
NormAcc(comps, acc) ==
  IF comps = <<>> THEN acc
  ELSE LET c == comps[1] IN
    IF c = <<>> \/ c = DOT THEN NormAcc(Tail(comps), acc)
    ELSE IF c # DOTDOT \/ acc = <<>> \/ Last(acc) = DOTDOT
      THEN NormAcc(Tail(comps), Append(acc, c))
      ELSE NormAcc(Tail(comps), Front(acc))

\* the components of posixpath.normpath(s), s a relative path
NormComps(s) == NormAcc(Split(s), <<>>)

\* posixpath.normpath(s), s a relative path
normpath(s) == IF NormComps(s) = <<>> THEN DOT ELSE Join(NormComps(s))

(***************************************************************************)
(* Repository references, pins and manifests.                              *)
(*                                                                         *)
(* A reference is a URL: a host (empty for a relative reference) and a     *)
(* path of segments; a segment is a stem and whether it ends in ".git".    *)
(* A manifest entry is the JSON object of git_externals.json; NoKey marks  *)
(* a key the object does not have, Null the JSON null.                     *)
(***************************************************************************)
NoKey == "<absent>"
Null == "null"

Seg(stem, dotgit) == [stem |-> stem, dotgit |-> dotgit]
UA == [host |-> "", path |-> <<Seg("proj", FALSE), Seg("libA", TRUE)>>]
UB == [host |-> "", path |-> <<Seg("proj", FALSE), Seg("libB", TRUE)>>]
Urls == {UA, UB}
\* another repository whose last path segment is that of UA
UC == [host |-> "", path |-> <<Seg("alt", FALSE), Seg("libA", TRUE)>>]
AllUrls == Urls \cup {UC}
OriginHost == "origin.example"

\* git_externals.get_repo_name: last path segment, ".git" stripped
get_repo_name(repo) == Last(repo.path).stem

\* git_externals.normalize_gitext_url: a relative reference takes the host
\* of the current repository's origin
normalize_gitext_url(url) ==
  IF url.host # "" THEN url ELSE [host |-> OriginHost, path |-> url.path]

SRC_ALL == <<".", "/">>
SRC_L == <<"l", "/">>
SRC_I == <<"i", "/">>
D_a == <<"a">>
D_ab == <<"a", "/", "b">>
D_abc == <<"a", "/", "b", "/", "c">>
D_b == <<"b">>
D_c == <<"c">>
D_dotc == <<".", "/", "c">>
D_dotabc == <<".", "/", "a", "/", "b", "/", "c">>
D_n == <<"n">>
D_dotdotb == <<".", "/", ".", "/", "b">>
D_ln == <<"l", "n">>

Br(b, r, t) == [branch |-> b, ref |-> r, tag |-> NoKey, targets |-> t]
Tg(g, t) == [branch |-> NoKey, ref |-> NoKey, tag |-> g, targets |-> t]
T1(src, dsts) == [s \in {src} |-> dsts]
T2(s1, d1, s2, d2) == [s \in {s1, s2} |-> IF s = s1 THEN d1 ELSE d2]
M0 == [u \in {} |-> Br("master", Null, T1(SRC_ALL, <<D_a>>))]
M1(u, e) == [x \in {u} |-> e]
M2(u1, e1, u2, e2) == [x \in {u1, u2} |-> IF x = u1 THEN e1 ELSE e2]

\* the branches, tags and commits every remote repository has
KnownRefs == {"master", "dev", "v1", "v2", "c1"}
DefaultBranch == "master"
\* the directories every remote repository's tree has (besides its manifest)
RepoTree == {<< <<"l">> >>, << <<"i">> >>}

\* the manifest committed in each remote repository: libA declares libB as
\* its own external, pinned to a branch that differs between the first two
\* worlds and to a tag in the third; in the fourth the destination is a
\* name next to libA's directory l that begins as l does
WorldPlain == [u \in AllUrls |->
  IF u = UA THEN M1(UB, Br("master", Null, T1(SRC_ALL, <<D_n>>))) ELSE M0]
WorldConflict == [u \in AllUrls |->
  IF u = UA THEN M1(UB, Br("dev", Null, T1(SRC_ALL, <<D_n>>))) ELSE M0]
WorldTag == [u \in AllUrls |->
  IF u = UA THEN M1(UB, Tg("v1", T1(SRC_ALL, <<D_n>>))) ELSE M0]
WorldSibling == [u \in AllUrls |->
  IF u = UA THEN M1(UB, Br("master", Null, T1(SRC_ALL, <<D_ln>>))) ELSE M0]
Worlds == {WorldPlain, WorldConflict, WorldTag, WorldSibling}
\* a world where libA's manifest pins libB to a tag libB does not have
WorldGone == [u \in AllUrls |->
  IF u = UA THEN M1(UB, Tg("gone", T1(SRC_ALL, <<D_n>>))) ELSE M0]

\* the root manifests a behaviour may start from
InitManifests ==
  { M1(UB, Br("master", Null, T1(SRC_ALL, <<D_ab>>))),
    M1(UA, Br("master", Null, T1(SRC_L, <<D_ab>>))),
    M1(UA, Br("master", Null, T2(SRC_ALL, <<D_a>>, SRC_L, <<D_dotdotb>>))),
    M1(UB, Tg("v1", T1(SRC_ALL, <<D_a>>))),
    M2(UA, Br("master", Null, T1(SRC_ALL, <<D_ab>>)),
       UB, Br("master", Null, T1(SRC_L, <<D_abc, D_dotc>>))),
    M2(UA, Br("dev", Null, T1(SRC_L, <<D_dotabc>>)),
       UB, Br("master", "c1", T1(SRC_ALL, <<D_ab>>))) }

VARIABLES
  manifest,   \* the object json.load returns for the root git_externals.json
  mfile,      \* the root git_externals.json: whether it is there, and its text
  remote,     \* the manifest committed in each remote repository
  order,      \* the iteration order of the references of a dict
  co,         \* the checkouts on disk, by checkout id (the names from the root)
  links,      \* the symbolic links on disk: location |-> target and creating run
  dirs,       \* the directories os.makedirs created
  extroot,    \* the checkouts that have a .git/externals directory
  exclude,    \* the .git/info/exclude file of each repository
  rootDirty,  \* the root working tree has a modified tracked file
  pc,         \* "idle", or the stage of the running update
  recursive,  \* the --recursive flag of the running (or last) update
  reset,      \* the --reset flag of the running (or last) update
  stack,      \* the gitext_up calls in progress, innermost last
  cwd,        \* the working directory of the process
  cds,        \* the directories the chdir scopes in progress return to
  log,        \* the commands and link operations of the current run
  exit,       \* the exit status of the last command
  runs,       \* update runs started
  edits,      \* add and remove commands run
  mods,       \* local modifications made
  kills,      \* updates killed
  touched,    \* what happened since the last run ended: "edit", "modify", "kill"
  prev,       \* the disk at the end of the run before the last
  last        \* the disk at the end of the last run

vars == <<manifest, mfile, remote, order, co, links, dirs, extroot, exclude, rootDirty,
          pc, recursive, reset, stack, cwd, cds, log, exit, runs, edits, mods, kills, touched,
          prev, last>>

(***************************************************************************)
(* The file system.  A location is a checkout id (the names of the nested  *)
(* checkouts from the root, <<>> for the root working tree) and a path     *)
(* relative to that checkout's working tree.                               *)
(***************************************************************************)
Path(c, rel) == [co |-> c, rel |-> rel]
ROOT == <<>>

\* dict iteration order: the references of m in the order of `order`
RECURSIVE KeysFrom(_, _)
KeysFrom(seq, dom) ==
  IF seq = <<>> THEN <<>>
  ELSE IF seq[1] \in dom THEN <<seq[1]>> \o KeysFrom(Tail(seq), dom)
  ELSE KeysFrom(Tail(seq), dom)
Keys(m) == KeysFrom(order, DOMAIN m)

\* dict iteration order of a targets object: by source string
RECURSIVE SortedSrcs(_)
SortedSrcs(S) ==
  IF S = {} THEN <<>>
  ELSE LET m == CHOOSE x \in S : \A y \in S \ {x} : StrLess(x, y)
       IN <<m>> \o SortedSrcs(S \ {m})
SrcKeys(targets) == SortedSrcs(DOMAIN targets)

\* the sparse patterns in force in a checkout, if any
IsSparse(ck) == ck.sparsecfg /\ ck.hasfile

\* a sparse pattern line selects a path of the tree: a line holding an
\* absolute file-system path is anchored at the top of the tree and selects
\* nothing of it
PatternCovers(p, rel) ==
  /\ ~p.abs
  /\ LET pc_ == NormComps(p.text) IN
       Len(pc_) <= Len(rel) /\ SubSeq(rel, 1, Len(pc_)) = pc_

MANIFEST == << <<"git_externals.json">> >>

\* rel is in the working tree of checkout record ck
InWorktree(ck, rel, tree) ==
  /\ ck.head # NoKey
  /\ rel \in tree
  /\ IsSparse(ck) => \E k \in 1..Len(ck.patterns) : PatternCovers(ck.patterns[k], rel)

\* the working tree of checkout c is on disk (the root always is)
HasCheckout(c) == c = ROOT \/ c \in DOMAIN co

\* the location is a directory of a working tree
IsDirLoc(p) ==
  /\ HasCheckout(p.co)
  /\ \/ p.rel = <<>>
     \/ p \in dirs
     \/ (p.co # ROOT /\ InWorktree(co[p.co], p.rel, RepoTree))

\* os.path.lexists of a location
PhysExists(p) == IsDirLoc(p) \/ p \in DOMAIN links

\* follow the components comps from location cur, resolving links
RECURSIVE Walk(_, _, _)
Walk(cur, comps, hops) ==
  IF comps = <<>> THEN cur
  ELSE LET nxt == Path(cur.co, Append(cur.rel, comps[1])) IN
    IF nxt \in DOMAIN links /\ hops > 0
      THEN Walk(Path(links[nxt].target.co, <<>>),
                links[nxt].target.rel \o Tail(comps), hops - 1)
      ELSE Walk(nxt, Tail(comps), hops)

\* os.path.realpath of path s relative to the working tree of checkout c
realpath(c, s) == Walk(Path(c, <<>>), NormComps(s), MaxHops)

\* where the last component of s lives (the parent resolved, the name not)
Loc(c, s) ==
  LET comps == NormComps(s)
      par == Walk(Path(c, <<>>), Front(comps), MaxHops)
  IN Path(par.co, Append(par.rel, Last(comps)))

\* os.path.exists of a location reached by following links
Exists(c, comps) ==
  LET p == Walk(Path(c, <<>>), comps, MaxHops) IN
  PhysExists(p) /\ p \notin DOMAIN links

(***************************************************************************)
(* The manifest file.  Its text is the sequence of the members of the JSON *)
(* object in file order, a member being a key and a value: a string or     *)
(* null, a list of strings, or the members of a nested object.  White      *)
(* space is always that of indent=4 and is left out.                       *)
(***************************************************************************)
F_branch == <<"b", "r", "a", "n", "c", "h">>
F_ref == <<"r", "e", "f">>
F_tag == <<"t", "a", "g">>
F_targets == <<"t", "a", "r", "g", "e", "t", "s">>

StemText(stem) ==
  CASE stem = "proj" -> <<"p", "r", "o", "j">>
    [] stem = "alt" -> <<"a", "l", "t">>
    [] stem = "libA" -> <<"l", "i", "b", "A">>
    [] stem = "libB" -> <<"l", "i", "b", "B">>

\* the string of a relative reference, as it is a key of the manifest
UrlText(u) ==
  Join([k \in 1..Len(u.path) |->
          StemText(u.path[k].stem)
          \o (IF u.path[k].dotgit THEN <<".", "g", "i", "t">> ELSE <<>>)])

Member(k, v) == [key |-> k, val |-> v]

RECURSIVE InsertByKey(_, _)
InsertByKey(sorted, m) ==
  IF sorted = <<>> THEN <<m>>
  ELSE IF StrLess(m.key, sorted[1].key) THEN <<m>> \o sorted
  ELSE <<sorted[1]>> \o InsertByKey(Tail(sorted), m)

RECURSIVE SortByKeyAcc(_, _)
SortByKeyAcc(members, acc) ==
  IF members = <<>> THEN acc
  ELSE SortByKeyAcc(Tail(members), InsertByKey(acc, members[1]))

\* members left in dict order
SortByKey_asis(members) == members
\* sort_keys=True: the members of an object by key
SortByKey(members) == SortByKeyAcc(members, <<>>)

\* the members of a targets object, in dict order
TargetMembers(targets) ==
  [k \in 1..Len(SrcKeys(targets)) |-> Member(SrcKeys(targets)[k], targets[SrcKeys(targets)[k]])]

\* the members of an entry in the order gitext_add inserts its keys
EntryMembers(e) ==
  <<Member(F_targets, SortByKey(TargetMembers(e.targets)))>>
  \o (IF e.branch # NoKey THEN <<Member(F_branch, e.branch)>> ELSE <<>>)
  \o (IF e.ref # NoKey THEN <<Member(F_ref, e.ref)>> ELSE <<>>)
  \o (IF e.tag # NoKey THEN <<Member(F_tag, e.tag)>> ELSE <<>>)

\* json.dump(externals, fp, sort_keys=True, indent=4) of a dict whose
\* references iterate in the order o
json_dump_in(o, m) ==
  SortByKey([k \in 1..Len(KeysFrom(o, DOMAIN m)) |->
               Member(UrlText(KeysFrom(o, DOMAIN m)[k]),
                      SortByKey(EntryMembers(m[KeysFrom(o, DOMAIN m)[k]])))])

\* git_externals.dump_gitexts: the text written
dump_gitexts(m) == json_dump_in(order, m)

\* the value of key in a sequence of members, NoKey when it has none
Lookup(members, key) ==
  IF \E k \in 1..Len(members) : members[k].key = key
    THEN members[CHOOSE k \in 1..Len(members) : members[k].key = key].val
    ELSE NoKey

\* json.load of a text: a dict by reference, each entry with the keys the
\* text gives it
json_load(text) ==
  [u \in {x \in AllUrls : \E k \in 1..Len(text) : text[k].key = UrlText(x)} |->
     LET ms == Lookup(text, UrlText(u))
         ts == Lookup(ms, F_targets)
     IN [branch |-> Lookup(ms, F_branch), ref |-> Lookup(ms, F_ref),
         tag |-> Lookup(ms, F_tag),
         targets |-> [src \in {ts[k].key : k \in 1..Len(ts)} |-> Lookup(ts, src)]]]

\* the root manifest file: absent, or present with a text
NoFile == [present |-> FALSE, text |-> <<>>]
File(text) == [present |-> TRUE, text |-> text]

(***************************************************************************)
(* Manifest store and traversal.                                           *)
(***************************************************************************)
RemoteManifest(nurl) == remote[[host |-> "", path |-> nurl.path]]

\* the manifest file is in the working tree of checkout c
ManifestExists(c) ==
  \/ c = ROOT /\ mfile.present
  \/ /\ c \in DOMAIN co
     /\ co[c].head # NoKey
     /\ RemoteManifest(co[c].url) # M0
     /\ IsSparse(co[c]) =>
          \E k \in 1..Len(co[c].patterns) : PatternCovers(co[c].patterns[k], MANIFEST)

\* git_externals.load_gitexts(pwd): the empty manifest when the file is absent
load_gitexts(c) ==
  IF ~ManifestExists(c) THEN M0
  ELSE IF c = ROOT THEN manifest
  ELSE RemoteManifest(co[c].url)

\* git_externals.foreach_externals with only=[]: the (url, path, entry)
\* triples the callback is called with, in call order
RECURSIVE ForeachFrom(_, _, _)
ForeachFrom(pwd, keys, rec) ==
  IF keys = <<>> THEN <<>>
  ELSE LET rel_url == keys[1]
           ext_path == Append(pwd, get_repo_name(rel_url))
       IN <<[url |-> rel_url, path |-> ext_path, ext |-> load_gitexts(pwd)[rel_url]]>>
          \o (IF rec THEN ForeachFrom(ext_path, Keys(load_gitexts(ext_path)), rec)
              ELSE <<>>)
          \o ForeachFrom(pwd, Tail(keys), rec)
\* a traversal that never descends
foreach_externals_flat(pwd, rec) == ForeachFrom(pwd, Keys(load_gitexts(pwd)), FALSE)
foreach_externals(pwd, rec) == ForeachFrom(pwd, Keys(load_gitexts(pwd)), rec)

Range(seq) == {seq[k] : k \in 1..Len(seq)}

\* the registry of externals_sanity_check: the (branch, ref) pairs seen per url
Registry(visits, url) ==
  {<<v.ext.branch, v.ext.ref>> : v \in {w \in Range(visits) : w.url = url}}

\* git_externals.externals_sanity_check: "passed", "conflict" (error, exit 1)
\* or "KeyError" (registry_add reads ext['branch'] of an entry without it)
externals_sanity_check ==
  LET visits == foreach_externals(ROOT, TRUE) IN
  IF \E v \in Range(visits) : v.ext.branch = NoKey \/ v.ext.ref = NoKey
    THEN "KeyError"
  ELSE IF \E v \in Range(visits) : Cardinality(Registry(visits, v.url)) > 1
    THEN "conflict"
  ELSE "passed"

\* the lines of the error message of externals_sanity_check, by the fields
\* their format strings have: "- {url}, tracked as:" followed by one
\* "- branch: '{0}', ref: '{1}'" per registry item.  No line carries the path
\* of a call site or a tag; a KeyError ends the process before any message.
SanityReport ==
  LET visits == foreach_externals(ROOT, TRUE) IN
  IF externals_sanity_check # "conflict" THEN {}
  ELSE {[url |-> v.url, path |-> NoKey, branch |-> v.ext.branch, ref |-> v.ext.ref,
         tag |-> NoKey] :
        v \in {w \in Range(visits) : Cardinality(Registry(visits, w.url)) > 1}}

\* git_externals.is_workingtree_clean(path, fail_on_empty=False)
is_workingtree_clean(c) ==
  IF c = ROOT THEN ~rootDirty
  ELSE IF c \notin DOMAIN co THEN TRUE
  ELSE ~co[c].dirty

\* a clean list that looks at the root only
CleanFlags_root(rec) == <<is_workingtree_clean(ROOT)>>
\* the `clean` list of gitext_update: root, then every external visited
CleanFlags(rec) ==
  <<is_workingtree_clean(ROOT)>>
  \o [k \in 1..Len(foreach_externals(ROOT, rec)) |->
        is_workingtree_clean(foreach_externals(ROOT, rec)[k].path)]

(***************************************************************************)
(* filter_externals_not_needed.                                            *)
(***************************************************************************)
\* os.path.abspath(dst).startswith(e), dst relative to the working tree of
\* checkout c and e a resolved location.  Both strings begin with the path
\* of a checkout; no relative component begins with ".git".
AbsStartsWith(c, dst, e) ==
  LET d == Join(NormComps(dst)) IN
  IF e.co = c THEN e.rel = <<>> \/ StartsWith(d, Join(e.rel))
  ELSE /\ e.rel = <<>>
       /\ Len(e.co) < Len(c)
       /\ SubSeq(c, 1, Len(e.co)) = e.co

RECURSIVE FilterDsts(_, _, _)
FilterDsts(c, dsts, entries) ==
  IF dsts = <<>> THEN <<>>
  ELSE (IF \E e \in Range(entries) : AbsStartsWith(c, dsts[1], e)
          THEN <<dsts[1]>> ELSE <<>>)
       \o FilterDsts(c, Tail(dsts), entries)

FilterTargets(c, targets, entries) ==
  LET keep == {s \in DOMAIN targets : FilterDsts(c, targets[s], entries) # <<>>}
  IN [s \in keep |-> FilterDsts(c, targets[s], entries)]

\* git_externals.filter_externals_not_needed, run in the working tree of c
filter_externals_not_needed(c, all_externals, entries) ==
  LET keep == {u \in DOMAIN all_externals :
                 DOMAIN FilterTargets(c, all_externals[u].targets, entries) # {}}
  IN [u \in keep |->
        [all_externals[u] EXCEPT
           !.targets = FilterTargets(c, all_externals[u].targets, entries)]]

(***************************************************************************)
(* link_entries: the entry list and its order.                             *)
(***************************************************************************)
\* entries for the first destination of a source only
DstEntries_first(name, src, dsts) ==
  IF dsts = <<>> THEN <<>> ELSE <<[name |-> name, src |-> src, dst |-> dsts[1]]>>
RECURSIVE DstEntries(_, _, _)
DstEntries(name, src, dsts) ==
  IF dsts = <<>> THEN <<>>
  ELSE <<[name |-> name, src |-> src, dst |-> dsts[1]]>>
       \o DstEntries(name, src, Tail(dsts))

RECURSIVE SrcEntries(_, _, _)
SrcEntries(name, targets, srcs) ==
  IF srcs = <<>> THEN <<>>
  ELSE DstEntries(name, srcs[1], targets[srcs[1]])
       \o SrcEntries(name, targets, Tail(srcs))

RECURSIVE RepoEntries(_, _)
RepoEntries(exts, keys) ==
  IF keys = <<>> THEN <<>>
  ELSE SrcEntries(get_repo_name(keys[1]), exts[keys[1]].targets,
                  SrcKeys(exts[keys[1]].targets))
       \o RepoEntries(exts, Tail(keys))

\* the list comprehension of link_entries, in dict order; every dst is
\* os.path.join(os.getcwd(), dst), so the entries compare as dst does
EntryList(exts) == RepoEntries(exts, Keys(exts))

RECURSIVE InsertSorted(_, _)
InsertSorted(sorted, e) ==
  IF sorted = <<>> THEN <<e>>
  ELSE IF StrLess(e.dst, sorted[1].dst) THEN <<e>> \o sorted
  ELSE <<sorted[1]>> \o InsertSorted(Tail(sorted), e)

RECURSIVE SortAcc(_, _)
SortAcc(seq, acc) ==
  IF seq = <<>> THEN acc ELSE SortAcc(Tail(seq), InsertSorted(acc, seq[1]))

RECURSIVE InsertByLength(_, _)
InsertByLength(sorted, e) ==
  IF sorted = <<>> THEN <<e>>
  ELSE IF Len(e.dst) < Len(sorted[1].dst) THEN <<e>> \o sorted
  ELSE <<sorted[1]>> \o InsertByLength(Tail(sorted), e)

RECURSIVE SortByLengthAcc(_, _)
SortByLengthAcc(seq, acc) ==
  IF seq = <<>> THEN acc ELSE SortByLengthAcc(Tail(seq), InsertByLength(acc, seq[1]))

\* a sort ascending by the length of the destination string
SortEntries_bylength(entries) == SortByLengthAcc(entries, <<>>)
\* entries.sort(key=lambda x: x[2]): stable, ascending by destination string
SortEntries(entries) == SortAcc(entries, <<>>)

Reverse(seq) == [k \in 1..Len(seq) |-> seq[Len(seq) + 1 - k]]

\* removal in creation order
RemovalOrder_asc(entries) == entries
\* entries[::-1]: the order in which link_entries removes
RemovalOrder(entries) == Reverse(entries)

\* os.path.abspath(src) taken without entering the checkout
LinkTarget_cwd(c, name, src) == Path(c, NormComps(src))
\* os.path.abspath(src) inside the checkout of repo_name under cwd c
LinkTarget(c, name, src) == Path(Append(c, name), NormComps(src))

(***************************************************************************)
(* git.  A checkout record holds what the commands below read and write:   *)
(* the url cloned from, whether the remote "origin" is configured (and     *)
(* fetched), core.sparsecheckout, the lines of .git/info/sparse-checkout,  *)
(* the checked-out branch, tag or commit, and whether a tracked file is    *)
(* modified.                                                               *)
(***************************************************************************)
NoUrl == [host |-> "", path |-> <<>>]

\* the checkout `git clone url name` leaves
Cloned(nurl) ==
  [url |-> nurl, origin |-> TRUE, sparsecfg |-> FALSE, hasfile |-> FALSE,
   patterns |-> <<>>, head |-> DefaultBranch, dirty |-> FALSE]

\* the checkout `git init name` leaves
Inited ==
  [url |-> NoUrl, origin |-> FALSE, sparsecfg |-> FALSE, hasfile |-> FALSE,
   patterns |-> <<>>, head |-> NoKey, dirty |-> FALSE]

\* `git fetch --tags` needs the remote
FetchTagsFails(ck) == ~ck.origin
\* `git checkout x` needs the fetched objects and a ref of that name
CheckoutFails(ck, x) == ~ck.origin \/ x \notin KnownRefs
\* `git pull origin b` needs the remote
PullFails(ck) == ~ck.origin
\* the exit status of the process when an exception (GitError, OSError,
\* KeyError) reaches the top of the interpreter
UncaughtExit == 1
\* the exit status of a git command that ends in die(): no remote to fetch
\* or pull from
GitFatalExit == 128
\* the exit status of `git checkout x` when nothing matches x
GitErrorExit == 1
\* no command has ended yet
NoExit == -1
\* the status of a process ended by SIGKILL, as its parent reads it
KilledExit == -9

(***************************************************************************)
(* sparse_checkout and the choice between it and a full clone.             *)
(***************************************************************************)
\* sparse as soon as one source is not the whole tree
NeedsSparse_any(targets) == DOMAIN targets # {SRC_ALL}
\* gitext_up: `if './' not in dirs` selects the sparse checkout
NeedsSparse(targets) == SRC_ALL \notin DOMAIN targets

\* the first line sparse_checkout writes: externals_json_path(), the
\* absolute path of the manifest in the new checkout ck
ManifestPattern(ck) == [abs |-> TRUE, base |-> ck, text |-> <<"git_externals.json">>]

\* the line written for directory d
DirPattern(d) ==
  [abs |-> FALSE, base |-> ROOT,
   text |-> normpath(d) \o (IF Last(d) = "/" THEN <<"/">> ELSE <<>>)]

\* the lines of .git/info/sparse-checkout
SparsePatterns(ck, targets) ==
  <<ManifestPattern(ck)>>
  \o [k \in 1..Len(SrcKeys(targets)) |-> DirPattern(SrcKeys(targets)[k])]

(***************************************************************************)
(* untrack.                                                                *)
(***************************************************************************)
\* `if p.startswith('./'): p = p[2:]`
Untracked(p) == IF StartsWith(p, <<".", "/">>) THEN SubSeq(p, 3, Len(p)) ELSE p

RECURSIVE ToUntrack(_, _)
\* to_untrack of gitext_up: every destination of every entry, in dict order
ToUntrack(exts, keys) ==
  IF keys = <<>> THEN <<>>
  ELSE LET es == SrcEntries("", exts[keys[1]].targets, SrcKeys(exts[keys[1]].targets))
       IN [k \in 1..Len(es) |-> es[k].dst] \o ToUntrack(exts, Tail(keys))

\* the lines untrack writes
ExcludeLines(exts) ==
  [k \in 1..Len(ToUntrack(exts, Keys(exts))) |-> Untracked(ToUntrack(exts, Keys(exts))[k])]

(***************************************************************************)
(* utils.chdir.  A directory is the working tree of a checkout or its      *)
(* .git/externals; a scope state is the working directory and the          *)
(* directories the `with chdir(...)` blocks in progress saved.             *)
(***************************************************************************)
Wt(c) == [kind |-> "worktree", co |-> c]
ExtDir(c) == [kind |-> "externals", co |-> c]
\* where the user runs the commands
Home == Wt(ROOT)

Now == [cwd |-> cwd, saved |-> cds]
SetScope(sc) == cwd' = sc.cwd /\ cds' = sc.saved

\* `cwd = os.path.abspath(os.getcwd())`, `os.chdir(path)`
Entered(sc, path) == [cwd |-> path, saved |-> Append(sc.saved, sc.cwd)]
\* `finally: os.chdir(cwd)` at the end of the block
Left(sc) == [cwd |-> Last(sc.saved), saved |-> Front(sc.saved)]

\* an exception that leaves the directory where it was raised
Unwound_none(sc) == [cwd |-> sc.cwd, saved |-> <<>>]
RECURSIVE Unwound(_)
\* an exception (SystemExit included) goes through the `finally` of every
\* block in progress
Unwound(sc) == IF sc.saved = <<>> THEN sc ELSE Unwound(Left(sc))

(***************************************************************************)
(* The update run: control state.                                          *)
(***************************************************************************)
NewFrame(c, filter, entries) ==
  [co |-> c, filter |-> filter, entries |-> entries, exts |-> M0, keys |-> <<>>,
   i |-> 0, pc |-> "load", ents |-> <<>>, j |-> 0]

Top == stack[Len(stack)]
InUp(label) == pc = "up" /\ stack # <<>> /\ Top.pc = label

\* the external the top frame is processing
CurUrl == Top.keys[Top.i]
CurExt == Top.exts[CurUrl]
CurName == get_repo_name(normalize_gitext_url(CurUrl))
CurCo == Append(Top.co, CurName)

Ev(op, c, arg, to) == [op |-> op, co |-> c, arg |-> arg, to |-> to]
NoPath == Path(ROOT, <<>>)
Logged(e) == log' = Append(log, e)

\* skip the phases of gitext_up that have nothing left to do
RECURSIVE Phase(_)
Phase(f) ==
  IF f.pc = "rm" /\ f.j > Len(f.ents) THEN Phase([f EXCEPT !.pc = "ln", !.j = 1])
  ELSE IF f.pc = "ln" /\ f.j > Len(f.ents) THEN Phase([f EXCEPT !.pc = "rec", !.i = 1])
  ELSE IF f.pc = "rec" /\ (~recursive \/ f.i > Len(f.keys)) THEN [f EXCEPT !.pc = "untrack"]
  ELSE f

\* the top frame after its `for ext_repo` loop: link_entries starts
StartLinks(f) ==
  Phase([f EXCEPT !.pc = "rm", !.ents = SortEntries(EntryList(f.exts)), !.j = 1])

\* the scopes after the commands of the current external: the blocks of
\* chdir(repo_name) and chdir(externals_root_path()) end
AfterExtScope == Left(Left(Now))

\* link_entries run as soon as the commands of one external are done
AfterExt_links(f) == StartLinks(f)
\* the top frame after the commands of the current external
AfterExt(f) ==
  IF f.i < Len(f.keys) THEN [f EXCEPT !.i = f.i + 1, !.pc = "probe"] ELSE StartLinks(f)

Snapshot(code, acted) ==
  [links |-> [p \in DOMAIN links' |-> links'[p].target],
   heads |-> [c \in DOMAIN co' |-> co'[c].head],
   exclude |-> exclude',
   exit |-> code, since |-> touched, recursive |-> recursive', acted |-> acted]

NoSnapshot ==
  [links |-> <<>>, heads |-> <<>>, exclude |-> <<>>,
   exit |-> NoExit, since |-> {}, recursive |-> FALSE, acted |-> FALSE]

\* the process ends with status code, from inside the scopes of sc
FinishIn(sc, code, acted) ==
  /\ pc' = "idle"
  /\ stack' = <<>>
  /\ SetScope(Unwound(sc))
  /\ exit' = code
  /\ prev' = last
  /\ last' = Snapshot(code, acted)
  /\ touched' = {}

\* the process ends with status code
Finish(code, acted) == FinishIn(Now, code, acted)

\* the top frame goes on as f, in the scopes of sc
GotoIn(sc, f) ==
  /\ stack' = [stack EXCEPT ![Len(stack)] = f]
  /\ SetScope(sc)
  /\ UNCHANGED <<pc, exit, prev, last, touched>>

\* the top frame goes on as f
Goto(f) == GotoIn(Now, f)

\* a nested call that never returns to its caller
Return_hung ==
  IF Len(stack) = 1 THEN Finish(0, TRUE)
  ELSE /\ stack' = [stack EXCEPT ![Len(stack)] = [Top EXCEPT !.pc = "hung"]]
       /\ UNCHANGED <<cwd, cds, pc, exit, prev, last, touched>>
\* gitext_up returns to its caller: the end of the process, or the end of
\* the `with chdir(...)` block of the recursion
Return ==
  IF Len(stack) = 1 THEN Finish(0, TRUE)
  ELSE /\ stack' = Front(stack)
       /\ SetScope(Left(Now))
       /\ UNCHANGED <<pc, exit, prev, last, touched>>

config == <<manifest, mfile, remote, order, rootDirty, runs, edits, mods, kills, recursive,
            reset>>

(***************************************************************************)
(* Initial state: the root repository with its manifest, nothing checked   *)
(* out, no link.                                                           *)
(***************************************************************************)
Orders == {<<UA, UB>>, <<UB, UA>>}

\* nothing checked out, no link, no command run
InitDisk ==
  /\ co = <<>>
  /\ links = <<>>
  /\ dirs = {}
  /\ extroot = {}
  /\ exclude = <<>>
  /\ rootDirty = FALSE
  /\ pc = "idle"
  /\ recursive = TRUE
  /\ reset = FALSE
  /\ stack = <<>>
  /\ cwd = Home
  /\ cds = <<>>
  /\ log = <<>>
  /\ exit = NoExit
  /\ runs = 0
  /\ edits = 0
  /\ mods = 0
  /\ kills = 0
  /\ touched = {}
  /\ prev = NoSnapshot
  /\ last = NoSnapshot

\* the states before the first command, but for the manifest file
InitWorld ==
  /\ remote \in Worlds
  \* the worlds differ in libA's manifest only, and one key has one order
  /\ UA \notin DOMAIN manifest => remote = WorldPlain
  /\ Cardinality(DOMAIN manifest) < 2 => order = <<UA, UB>>
  /\ InitDisk


\* the manifest file is absent, or it is as dump_gitexts writes it
Init ==
  /\ order \in Orders
  /\ \/ manifest \in InitManifests /\ mfile = File(dump_gitexts(manifest))
     \/ manifest = M0 /\ mfile = NoFile
  /\ InitWorld

disk == <<co, links, dirs, extroot, exclude>>

(***************************************************************************)
(* The group callback that runs before every subcommand.                   *)
(***************************************************************************)
\* error("Unable to find", externals_json_path(), exitcode=1)
MissingManifestExit == 1
\* missing storage reported with the code of the missing manifest
MissingStorageExit_same == MissingManifestExit
\* error('You must first run git-externals update/add', exitcode=2)
MissingStorageExit == 2
\* externals_sanity_check: error('\n'.join(errmsg), exitcode=1)
ConflictExit == 1

\* git_externals.cli: 0 when the subcommand is let run, or the exitcode of
\* the error() it calls (the current directory is always in a git repository)
cli(invoked_subcommand) ==
  IF invoked_subcommand # "add" /\ ~mfile.present THEN MissingManifestExit
  ELSE IF ROOT \notin extroot /\ invoked_subcommand \notin {"update", "add"}
    THEN MissingStorageExit
  ELSE 0

(***************************************************************************)
(* gitext_update.                                                          *)
(***************************************************************************)
\* the command starts: the group callback, then the body of the subcommand
StartUpdate(rec, rst) ==
  /\ pc = "idle"
  /\ runs < MaxRuns
  /\ runs' = runs + 1
  /\ recursive' = rec
  /\ reset' = rst
  /\ log' = <<>>
  /\ UNCHANGED <<manifest, mfile, remote, order, rootDirty, edits, mods, kills, disk>>
  /\ IF cli("update") # 0 THEN Finish(cli("update"), FALSE)
     ELSE /\ pc' = "sanity"
          /\ UNCHANGED <<stack, cwd, cds, exit, touched, prev, last>>

\* `git-externals update [--recursive|--no-recursive]`
gitext_update(rec) == StartUpdate(rec, FALSE)

\* `git-externals update [--recursive|--no-recursive] --reset`
gitext_update_reset(rec) == StartUpdate(rec, TRUE)

\* gitext_update: externals_sanity_check()
SanityCheck ==
  /\ pc = "sanity"
  /\ UNCHANGED <<config, disk, log>>
  /\ IF externals_sanity_check = "passed"
       THEN /\ pc' = IF reset THEN "resetroot" ELSE "clean"
            /\ UNCHANGED <<stack, cwd, cds, exit, prev, last, touched>>
       ELSE Finish(IF externals_sanity_check = "conflict" THEN ConflictExit
                   ELSE UncaughtExit, FALSE)

\* a refusal that ends the process as an error does
RefusalExit_error == UncaughtExit
\* the refusal of gitext_update: two echo lines and a normal return
RefusalExit == 0

\* gitext_update with --reset: git('reset', '--hard') in the root
ResetRoot ==
  /\ pc = "resetroot"
  /\ rootDirty' = FALSE
  /\ pc' = "clean"
  /\ Logged(Ev("reset", ROOT, <<"reset", "--hard">>, NoPath))
  /\ UNCHANGED <<manifest, mfile, remote, order, runs, edits, mods, kills, recursive,
                 reset, disk, stack, cwd, cds, exit, prev, last, touched>>

\* a guard that looks at the clean flags only
MayProceed_clean(rst, clean) == \A k \in 1..Len(clean) : clean[k]
\* `if all(clean)`, and with the --reset option `if reset or all(clean)`
MayProceed(rst, clean) == rst \/ \A k \in 1..Len(clean) : clean[k]

\* every failure of a git command ends the process as an uncaught
\* exception does
FailureExit_uncaught(errcode) == UncaughtExit
\* the exit status of update when git() raises GitError(errcode) inside
\* gitext_up: git_externals.gitext_update lets it reach the top of the
\* interpreter; cli.gitext_update, the one that has --reset, catches
\* ProgError and calls error(str(e), exitcode=e.errcode)
FailureExit(errcode) == IF reset THEN errcode ELSE UncaughtExit

\* gitext_update: the clean flags, then gitext_up(recursive) or the refusal
CleanCheck ==
  /\ pc = "clean"
  /\ UNCHANGED <<config, disk, log>>
  /\ IF MayProceed(reset, CleanFlags(recursive))
       THEN /\ pc' = "up"
            /\ stack' = <<NewFrame(ROOT, FALSE, <<>>)>>
            /\ UNCHANGED <<cwd, cds, exit, prev, last, touched>>
       ELSE Finish(RefusalExit, FALSE)

(***************************************************************************)
(* gitext_up, one step per command or file-system operation.               *)
(***************************************************************************)
\* the manifest is loaded and filtered, or the call returns for want of one
Load ==
  /\ InUp("load")
  /\ UNCHANGED <<config, disk, log>>
  /\ IF ~ManifestExists(Top.co) THEN Return
     ELSE LET all_externals == load_gitexts(Top.co)
              git_externals == IF ~Top.filter THEN all_externals
                               ELSE filter_externals_not_needed(Top.co, all_externals,
                                                                Top.entries)
              f == [Top EXCEPT !.exts = git_externals, !.keys = Keys(git_externals)]
          IN Goto(IF f.keys = <<>> THEN StartLinks(f)
                  ELSE [f EXCEPT !.i = 1, !.pc = "probe"])

\* what comes before the fetch in a checkout: in reset mode, the reset
BeforeFetch == IF reset THEN "resetco" ELSE "fetchall"

\* mkdir_p(externals_root_path()), `with chdir(externals_root_path())` and
\* the test os.path.exists(repo_name)
Probe ==
  /\ InUp("probe")
  /\ extroot' = extroot \cup {Top.co}
  /\ GotoIn(Entered(Now, ExtDir(Top.co)), [Top EXCEPT !.pc =
        IF CurCo \in DOMAIN co THEN BeforeFetch
        ELSE IF NeedsSparse(CurExt.targets) THEN "init"
        ELSE "clone"])
  /\ UNCHANGED <<config, co, links, dirs, exclude, log>>

\* git('clone', normalized_ext_repo, repo_name)
Clone ==
  /\ InUp("clone")
  /\ co' = (CurCo :> Cloned(normalize_gitext_url(CurUrl))) @@ co
  /\ Logged(Ev("clone", CurCo, <<"clone", CurName>>, NoPath))
  /\ Goto([Top EXCEPT !.pc = BeforeFetch])
  /\ UNCHANGED <<config, links, dirs, extroot, exclude>>

\* sparse_checkout: git('init', repo_name)
SparseInit ==
  /\ InUp("init")
  /\ co' = (CurCo :> Inited) @@ co
  /\ Logged(Ev("init", CurCo, <<"init", CurName>>, NoPath))
  /\ Goto([Top EXCEPT !.pc = "remote"])
  /\ UNCHANGED <<config, links, dirs, extroot, exclude>>

\* sparse_checkout: `with chdir(repo_name)` and
\* git('remote', 'add', '-f', 'origin', repo)
SparseRemote ==
  /\ InUp("remote")
  /\ co' = [co EXCEPT ![CurCo].origin = TRUE,
                      ![CurCo].url = normalize_gitext_url(CurUrl)]
  /\ Logged(Ev("remote", CurCo, <<"remote", "add", "-f", "origin">>, NoPath))
  /\ GotoIn(Entered(Now, Wt(CurCo)), [Top EXCEPT !.pc = "config"])
  /\ UNCHANGED <<config, links, dirs, extroot, exclude>>

\* sparse_checkout: git('config', 'core.sparsecheckout', 'true')
SparseConfig ==
  /\ InUp("config")
  /\ co' = [co EXCEPT ![CurCo].sparsecfg = TRUE]
  /\ Logged(Ev("config", CurCo, <<"config", "core.sparsecheckout", "true">>, NoPath))
  /\ Goto([Top EXCEPT !.pc = "sparsefile"])
  /\ UNCHANGED <<config, links, dirs, extroot, exclude>>

\* sparse_checkout: .git/info/sparse-checkout is written and the block ends
SparseFile ==
  /\ InUp("sparsefile")
  /\ co' = [co EXCEPT ![CurCo].hasfile = TRUE,
                      ![CurCo].patterns = SparsePatterns(CurCo, CurExt.targets)]
  /\ Logged(Ev("sparsefile", CurCo, <<>>, NoPath))
  /\ GotoIn(Left(Now), [Top EXCEPT !.pc = BeforeFetch])
  /\ UNCHANGED <<config, links, dirs, extroot, exclude>>

\* reset mode: before the update of a checkout its local modifications are
\* discarded
ResetCheckout ==
  /\ InUp("resetco")
  /\ co' = [co EXCEPT ![CurCo].dirty = FALSE]
  /\ Logged(Ev("reset", CurCo, <<"reset", "--hard">>, NoPath))
  /\ Goto([Top EXCEPT !.pc = "fetchall"])
  /\ UNCHANGED <<config, links, dirs, extroot, exclude>>

\* `with chdir(repo_name)` and git('fetch', '--all')
FetchAll ==
  /\ InUp("fetchall")
  /\ Logged(Ev("fetch", CurCo, <<"fetch", "--all">>, NoPath))
  /\ GotoIn(Entered(Now, Wt(CurCo)), [Top EXCEPT !.pc = "fetchtags"])
  /\ UNCHANGED <<config, disk>>

\* git('fetch', '--tags')
FetchTags ==
  /\ InUp("fetchtags")
  /\ Logged(Ev("fetch", CurCo, <<"fetch", "--tags">>, NoPath))
  /\ UNCHANGED <<config, disk>>
  /\ IF FetchTagsFails(co[CurCo]) THEN Finish(FailureExit(GitFatalExit), TRUE)
     ELSE Goto([Top EXCEPT !.pc = "checkout"])

\* what gitext_up checks out first: the tag, or else the branch
PinTarget(ext) == IF ext.tag # NoKey THEN ext.tag ELSE ext.branch
\* a branch is pulled after its checkout, a tag is not
PullsAfterCheckout(ext) == ext.tag = NoKey
\* a ref checkout whatever the value of ref
ChecksOutRef_always(ext) == TRUE
\* `if git_externals[ext_repo]['ref'] is not None`
ChecksOutRef(ext) == ext.ref # Null

\* git('checkout', tag) or git('checkout', branch)
Checkout ==
  /\ InUp("checkout")
  /\ Logged(Ev("checkout", CurCo, <<"checkout", PinTarget(CurExt)>>, NoPath))
  /\ UNCHANGED <<config, links, dirs, extroot, exclude>>
  /\ IF CheckoutFails(co[CurCo], PinTarget(CurExt))
       THEN /\ co' = co
            /\ Finish(FailureExit(GitErrorExit), TRUE)
       ELSE /\ co' = [co EXCEPT ![CurCo].head = PinTarget(CurExt)]
            /\ IF PullsAfterCheckout(CurExt) THEN Goto([Top EXCEPT !.pc = "pull"])
               ELSE GotoIn(AfterExtScope, AfterExt(Top))

\* git('pull', 'origin', branch)
Pull ==
  /\ InUp("pull")
  /\ Logged(Ev("pull", CurCo, <<"pull", "origin", CurExt.branch>>, NoPath))
  /\ UNCHANGED <<config, disk>>
  /\ IF PullFails(co[CurCo]) THEN Finish(FailureExit(GitFatalExit), TRUE)
     ELSE IF ChecksOutRef(CurExt) THEN Goto([Top EXCEPT !.pc = "coref"])
     ELSE GotoIn(AfterExtScope, AfterExt(Top))

\* git('checkout', ref)
CheckoutRef ==
  /\ InUp("coref")
  /\ Logged(Ev("checkout", CurCo, <<"checkout", CurExt.ref>>, NoPath))
  /\ UNCHANGED <<config, links, dirs, extroot, exclude>>
  /\ IF CheckoutFails(co[CurCo], CurExt.ref)
       THEN /\ co' = co
            /\ Finish(FailureExit(GitErrorExit), TRUE)
       ELSE /\ co' = [co EXCEPT ![CurCo].head = CurExt.ref]
            /\ GotoIn(AfterExtScope, AfterExt(Top))

(***************************************************************************)
(* link_entries: the two loops.                                            *)
(***************************************************************************)
\* `if os.path.lexists(dst): rm_link(dst)`; os.remove raises on a directory
RmLink ==
  /\ InUp("rm")
  /\ LET e == RemovalOrder(Top.ents)[Top.j]
         loc == Loc(Top.co, e.dst)
     IN /\ UNCHANGED <<config, co, dirs, extroot, exclude>>
        /\ IF ~PhysExists(loc)
             THEN /\ UNCHANGED <<links, log>>
                  /\ Goto(Phase([Top EXCEPT !.j = Top.j + 1]))
           ELSE IF loc \in DOMAIN links
             THEN /\ links' = [p \in DOMAIN links \ {loc} |-> links[p]]
                  /\ Logged(Ev("rm", Top.co, e.dst, loc))
                  /\ Goto(Phase([Top EXCEPT !.j = Top.j + 1]))
           ELSE /\ links' = links
                /\ Logged(Ev("rm", Top.co, e.dst, loc))
                /\ Finish(UncaughtExit, TRUE)

\* os.makedirs along comps from cur: the directories made, and whether it
\* went through (a dangling link or a file in the way raises OSError)
RECURSIVE MakeDirs(_, _, _)
MakeDirs(cur, comps, made) ==
  IF comps = <<>> THEN [ok |-> TRUE, made |-> made]
  ELSE LET nxt == Path(cur.co, Append(cur.rel, comps[1])) IN
    IF nxt \in DOMAIN links
      THEN LET t == Walk(Path(links[nxt].target.co, <<>>), links[nxt].target.rel, MaxHops)
           IN IF IsDirLoc(t) \/ t \in made THEN MakeDirs(t, Tail(comps), made)
              ELSE [ok |-> FALSE, made |-> made]
    ELSE IF IsDirLoc(nxt) \/ nxt \in made THEN MakeDirs(nxt, Tail(comps), made)
    ELSE IF HasCheckout(nxt.co) THEN MakeDirs(nxt, Tail(comps), made \cup {nxt})
    ELSE [ok |-> FALSE, made |-> made]

\* utils.mkdir_p(os.path.split(dst)[0]) from the working tree of checkout c
mkdir_p(c, dst) == MakeDirs(Path(c, <<>>), Front(NormComps(dst)), {})

\* chdir into the checkout, mkdir_p(parent), link(os.path.abspath(src), dst)
MkLink ==
  /\ InUp("ln")
  /\ LET e == Top.ents[Top.j]
         loc == Loc(Top.co, e.dst)
         md == mkdir_p(Top.co, e.dst)
     IN /\ UNCHANGED <<config, co, extroot, exclude>>
        /\ IF ~HasCheckout(Append(Top.co, e.name))
             THEN /\ UNCHANGED <<links, dirs, log>>
                  /\ Finish(UncaughtExit, TRUE)
           ELSE IF ~md.ok
             THEN /\ dirs' = dirs \cup md.made
                  /\ UNCHANGED <<links, log>>
                  /\ FinishIn(Entered(Now, Wt(Append(Top.co, e.name))), UncaughtExit, TRUE)
           ELSE IF PhysExists(loc) \/ loc \in md.made
             THEN /\ dirs' = dirs \cup md.made
                  /\ links' = links
                  /\ Logged(Ev("link", Top.co, e.dst, LinkTarget(Top.co, e.name, e.src)))
                  /\ FinishIn(Entered(Now, Wt(Append(Top.co, e.name))), UncaughtExit, TRUE)
           ELSE /\ dirs' = dirs \cup md.made
                /\ links' = (loc :> [target |-> LinkTarget(Top.co, e.name, e.src),
                                     run |-> runs]) @@ links
                /\ Logged(Ev("link", Top.co, e.dst, LinkTarget(Top.co, e.name, e.src)))
                /\ Goto(Phase([Top EXCEPT !.j = Top.j + 1]))

(***************************************************************************)
(* The recursion of gitext_up and untrack.                                 *)
(***************************************************************************)
RECURSIVE RealDsts(_, _, _)
RealDsts(c, targets, srcs) ==
  IF srcs = <<>> THEN <<>>
  ELSE [k \in 1..Len(targets[srcs[1]]) |-> realpath(c, targets[srcs[1]][k])]
       \o RealDsts(c, targets, Tail(srcs))

\* `entries`: os.path.realpath of every destination of the external
RealEntries(c, ext) == RealDsts(c, ext.targets, SrcKeys(ext.targets))

\* `with chdir(...)`: gitext_up(recursive, entries) inside the checkout of
\* the next external
Recurse ==
  /\ InUp("rec")
  /\ LET u == Top.keys[Top.i]
         child == Append(Top.co, get_repo_name(u))
     IN /\ UNCHANGED <<config, disk, log>>
        /\ IF ~HasCheckout(child) THEN Finish(UncaughtExit, TRUE)
           ELSE /\ stack' = [stack EXCEPT ![Len(stack)] = Phase([Top EXCEPT !.i = Top.i + 1])]
                           \o <<NewFrame(child, TRUE, RealEntries(Top.co, Top.exts[u]))>>
                /\ SetScope(Entered(Now, Wt(child)))
                /\ UNCHANGED <<pc, exit, prev, last, touched>>

\* untrack(to_untrack), then gitext_up returns
Untrack ==
  /\ InUp("untrack")
  /\ exclude' = (Top.co :> ExcludeLines(Top.exts)) @@ exclude
  /\ Logged(Ev("untrack", Top.co, <<>>, NoPath))
  /\ UNCHANGED <<config, co, links, dirs, extroot>>
  /\ Return

\* the process is killed between two steps; the next command is a new
\* process, started where the user is
Interrupt ==
  /\ pc # "idle"
  /\ kills < MaxKills
  /\ kills' = kills + 1
  /\ pc' = "idle"
  /\ stack' = <<>>
  /\ cwd' = Home
  /\ cds' = <<>>
  /\ exit' = KilledExit
  /\ touched' = touched \cup {"kill"}
  /\ UNCHANGED <<manifest, mfile, remote, order, rootDirty, runs, edits, mods,
                 recursive, reset, disk, log, prev, last>>

(***************************************************************************)
(* add and remove: manifest edits.  An option that is not given is None,   *)
(* which json writes as null.                                              *)
(***************************************************************************)
AddArgs(external, src, dst, branch, tag, ref) ==
  [external |-> external, src |-> src, dst |-> dst, branch |-> branch, tag |-> tag,
   ref |-> ref]

\* the command lines of `add` a behaviour may use
AddInputs ==
  { AddArgs(UA, SRC_I, D_c, "master", Null, Null),
    AddArgs(UB, SRC_ALL, D_c, "master", Null, "c1"),
    AddArgs(UB, SRC_ALL, D_b, Null, "v2", Null),
    AddArgs(UA, SRC_I, D_c, Null, Null, Null) }

\* the exit status of gitext_add: 0, or the exitcode of the error() it calls
AddExit(m, a) ==
  IF a.branch = Null /\ a.tag = Null THEN 3
  ELSE IF a.external \notin DOMAIN m THEN 0
  ELSE IF a.branch # Null
    THEN (IF m[a.external].branch = NoKey THEN 4
          ELSE IF a.ref # m[a.external].ref THEN 4
          ELSE 0)
  ELSE IF m[a.external].tag = NoKey THEN 4
  ELSE 0

\* targets after `if dst not in targets.setdefault(src, []): ...append(dst)`
AddTarget(targets, src, dst) ==
  [s \in DOMAIN targets \cup {src} |->
     IF s \notin DOMAIN targets THEN <<dst>>
     ELSE IF s = src /\ dst \notin Range(targets[s]) THEN Append(targets[s], dst)
     ELSE targets[s]]

\* the manifest gitext_add dumps
AddResult(m, a) ==
  IF a.external \notin DOMAIN m
    THEN [u \in DOMAIN m \cup {a.external} |->
            IF u # a.external THEN m[u]
            ELSE IF a.branch # Null THEN Br(a.branch, a.ref, T1(a.src, <<a.dst>>))
            ELSE Tg(a.tag, T1(a.src, <<a.dst>>))]
    ELSE [m EXCEPT ![a.external].targets = AddTarget(m[a.external].targets, a.src, a.dst)]

\* add and remove also drop the links on disk
EditFrame_unlink ==
  /\ links' = <<>>
  /\ UNCHANGED <<remote, order, rootDirty, runs, mods, kills, recursive, reset, co, dirs,
                 extroot, exclude, pc, stack, cwd, cds, log, prev, last>>
\* what gitext_add and gitext_remove leave alone: everything but the
\* manifest file (and the exit status of the process)
EditFrame ==
  UNCHANGED <<remote, order, rootDirty, runs, mods, kills, recursive, reset, disk, pc,
              stack, cwd, cds, log, prev, last>>

\* a directory of the root working tree below its top; none holds a file
\* named git_externals.json
SubDir == [kind |-> "subdir", co |-> ROOT]
\* the directories the user may run add and remove from
UserDirs == {Home, SubDir}

\* load_gitexts() with no argument, as add and remove call it: the file
\* os.path.join('.', 'git_externals.json') of the directory the command is
\* run from
load_gitexts_cwd(dir) == IF dir.kind = "worktree" THEN load_gitexts(dir.co) ELSE M0

\* `git-externals add URL SRC DST [--branch|--tag] [--ref]` run from dir;
\* dump_gitexts writes externals_json_path(), the file at the top of the
\* working tree
AddCommand(dir, a) ==
  /\ LET code == IF cli("add") # 0 THEN cli("add") ELSE AddExit(load_gitexts_cwd(dir), a)
     IN /\ exit' = code
        /\ IF code = 0
             THEN /\ manifest' = AddResult(load_gitexts_cwd(dir), a)
                  /\ mfile' = File(dump_gitexts(manifest'))
             ELSE UNCHANGED <<manifest, mfile>>
  /\ touched' = touched \cup {"edit"}
  /\ EditFrame

\* one add command of a session of at most MaxEdits edits
gitext_add_in(dir, a) ==
  /\ pc = "idle"
  /\ edits + mods < MaxEdits
  /\ edits' = edits + 1
  /\ AddCommand(dir, a)

\* add run from the top of the working tree
gitext_add(a) == gitext_add_in(Home, a)

\* the manifest gitext_remove dumps
RemoveResult(m, external) == [u \in DOMAIN m \ {external} |-> m[u]]

\* `git-externals remove URL` run from dir
RemoveCommand(dir, external) ==
  /\ exit' = cli("remove")
  /\ IF cli("remove") = 0
       THEN /\ manifest' = RemoveResult(load_gitexts_cwd(dir), external)
            /\ mfile' = File(dump_gitexts(manifest'))
       ELSE UNCHANGED <<manifest, mfile>>
  /\ touched' = touched \cup {"edit"}
  /\ EditFrame

\* one remove command of a session of at most MaxEdits edits
gitext_remove_in(dir, external) ==
  /\ pc = "idle"
  /\ edits + mods < MaxEdits
  /\ edits' = edits + 1
  /\ RemoveCommand(dir, external)

\* remove run from the top of the working tree
gitext_remove(external) == gitext_remove_in(Home, external)

\* between two commands the user modifies a tracked file of the root or of a
\* populated checkout
Modify(c) ==
  /\ pc = "idle"
  /\ edits + mods < MaxEdits
  /\ mods' = mods + 1
  /\ IF c = ROOT
       THEN /\ ~rootDirty
            /\ rootDirty' = TRUE
            /\ co' = co
       ELSE /\ c \in DOMAIN co
            /\ co[c].head # NoKey
            /\ ~co[c].dirty
            /\ co' = [co EXCEPT ![c].dirty = TRUE]
            /\ rootDirty' = rootDirty
  /\ touched' = touched \cup {"modify"}
  /\ UNCHANGED <<manifest, mfile, remote, order, runs, edits, kills, recursive, reset, links,
                 dirs, extroot, exclude, pc, stack, cwd, cds, log, exit, prev, last>>

\* one step of a running update
UpdateStep ==
  \/ SanityCheck
  \/ CleanCheck
  \/ Load
  \/ Probe
  \/ Clone
  \/ SparseInit
  \/ SparseRemote
  \/ SparseConfig
  \/ SparseFile
  \/ FetchAll
  \/ FetchTags
  \/ Checkout
  \/ Pull
  \/ CheckoutRef
  \/ RmLink
  \/ MkLink
  \/ Recurse
  \/ Untrack

\* updates that run to their end, between them manifest edits and local
\* modifications
Next ==
  \/ \E rec \in BOOLEAN : gitext_update(rec)
  \/ UpdateStep
  \/ \E a \in AddInputs : gitext_add(a)
  \/ \E u \in Urls : gitext_remove(u)
  \/ \E c \in {ROOT} \cup DOMAIN co : Modify(c)

Spec == Init /\ [][Next]_vars

\* updates that may be killed between two steps
NextKill ==
  \/ \E rec \in BOOLEAN : gitext_update(rec)
  \/ UpdateStep
  \/ Interrupt

SpecKill == Init /\ [][NextKill]_vars

\* updates in reset mode, between them local modifications
NextReset ==
  \/ \E rec \in BOOLEAN : gitext_update_reset(rec)
  \/ UpdateStep
  \/ ResetRoot
  \/ ResetCheckout
  \/ \E c \in {ROOT} \cup DOMAIN co : Modify(c)

SpecReset == Init /\ [][NextReset]_vars

\* updates of either gitext_update, each of which may be killed between two
\* steps: a later update then finds what the killed one left
NextFail ==
  \/ \E rec \in BOOLEAN : gitext_update(rec)
  \/ \E rec \in BOOLEAN : gitext_update_reset(rec)
  \/ UpdateStep
  \/ ResetRoot
  \/ ResetCheckout
  \/ Interrupt

SpecFail == Init /\ [][NextFail]_vars

\* updates that run to their end with nothing done between them.  The
\* process is one sequential program: the step after a command that has
\* returned is always taken, so the steps of a running update are weakly
\* fair (every git command is taken to return)
NextLive ==
  \/ \E rec \in BOOLEAN : gitext_update(rec)
  \/ UpdateStep

SpecLive == Init /\ [][NextLive]_vars /\ WF_vars(UpdateStep)

\* updates, and between them add and remove run from the top of the
\* working tree or from a directory below it
NextCwd ==
  \/ \E rec \in BOOLEAN : gitext_update(rec)
  \/ UpdateStep
  \/ \E dir \in UserDirs : \E a \in AddInputs : gitext_add_in(dir, a)
  \/ \E dir \in UserDirs : \E u \in Urls : gitext_remove_in(dir, u)

SpecCwd == Init /\ [][NextCwd]_vars

\* the root manifests, in a world where the checkout of the nested libB
\* fails
InitGone ==
  /\ order \in Orders
  /\ manifest \in InitManifests
  /\ mfile = File(dump_gitexts(manifest))
  /\ remote = WorldGone
  /\ Cardinality(DOMAIN manifest) < 2 => order = <<UA, UB>>
  /\ InitDisk

\* updates in that world, and local modifications between them
NextGone ==
  \/ \E rec \in BOOLEAN : gitext_update(rec)
  \/ UpdateStep
  \/ \E c \in {ROOT} \cup DOMAIN co : Modify(c)

SpecGone == InitGone /\ [][NextGone]_vars

\* the number of add and remove commands of a session that starts with no
\* manifest
MaxPinEdits == 3

\* command lines of `add` that give the same external different pins, one
\* of them with both --branch and --tag
PinInputs ==
  { AddArgs(UA, SRC_I, D_c, "master", Null, Null),
    AddArgs(UA, SRC_ALL, D_b, "dev", Null, Null),
    AddArgs(UA, SRC_ALL, D_b, "master", "v1", Null),
    AddArgs(UA, SRC_ALL, D_b, Null, "v1", Null),
    AddArgs(UB, SRC_ALL, D_b, "master", Null, "c1") }

\* a working tree with no manifest yet
InitPins ==
  /\ order \in Orders
  /\ manifest = M0
  /\ mfile = NoFile
  /\ InitWorld

\* add and remove commands run from the top of the working tree or from a
\* directory below it, and updates between them
NextPins ==
  \/ \E rec \in BOOLEAN : gitext_update(rec)
  \/ UpdateStep
  \/ \E dir \in UserDirs : \E a \in PinInputs :
       pc = "idle" /\ edits < MaxPinEdits /\ edits' = edits + 1 /\ AddCommand(dir, a)
  \/ \E dir \in UserDirs : \E u \in Urls :
       pc = "idle" /\ edits < MaxPinEdits /\ edits' = edits + 1 /\ RemoveCommand(dir, u)

SpecPins == InitPins /\ [][NextPins]_vars

(***************************************************************************)
(* status: foreach_externals with the `only` filter.                       *)
(***************************************************************************)
\* `s in t` for strings
Contains(t, s) == \E k \in 0..(Len(t) - Len(s)) : SubSeq(t, k + 1, k + Len(s)) = s

\* the absolute path of the top of the root working tree
RootText == <<"/", "w">>
ExtRootText == <<"/", ".", "g", "i", "t", "/", "e", "x", "t", "e", "r", "n", "a", "l", "s", "/">>
RECURSIVE PathText(_)
\* os.path.join(pwd, EXTERNALS_ROOT, get_repo_name(rel_url)), level by level
PathText(c) ==
  IF c = <<>> THEN RootText ELSE PathText(Front(c)) \o ExtRootText \o StemText(Last(c))

\* take_external: `for expr in only: return expr in url or expr in path`,
\* which returns in the first round of the loop
take_external(only, url, path) == Contains(url, only[1]) \/ Contains(path, only[1])

\* filter_ext()(rel_url, ext_path)
filter_ext(only, url, path) == IF Len(only) = 0 THEN TRUE ELSE take_external(only, url, path)

\* the externals foreach_externals_dir calls the callback for, in call
\* order: the traversal descends whatever the filter says, and the callback
\* runs where the checkout directory exists
Selected(only, rec) ==
  SelectSeq(foreach_externals(ROOT, rec),
            LAMBDA v : /\ filter_ext(only, UrlText(v.url), PathText(v.path))
                       /\ HasCheckout(v.path))

\* the expressions a status command line may give
OnlyExprs == {StemText("libA"), StemText("libB"), StemText("proj"), <<"z">>}
OnlyLists ==
  {<<>>} \cup {<<e>> : e \in OnlyExprs}
         \cup {<<e1, e2>> : e1 \in OnlyExprs, e2 \in OnlyExprs}

\* `git-externals status --porcelain EXTERNALS...`: the callback echoes the
\* reference of each external it is called for
gitext_st(only) ==
  /\ pc = "idle"
  /\ exit' = cli("status")
  /\ log' = IF cli("status") # 0 THEN <<>>
            ELSE [k \in 1..Len(Selected(only, TRUE)) |->
                    Ev("status", Selected(only, TRUE)[k].path,
                       UrlText(Selected(only, TRUE)[k].url), NoPath)]
  /\ touched' = touched \cup {"status"}
  /\ UNCHANGED <<manifest, mfile, remote, order, rootDirty, runs, edits, mods, kills,
                 recursive, reset, disk, pc, stack, cwd, cds, prev, last>>

\* updates, and between them status commands
NextStatus ==
  \/ \E rec \in BOOLEAN : gitext_update(rec)
  \/ UpdateStep
  \/ \E only \in OnlyLists : gitext_st(only)

SpecStatus == Init /\ [][NextStatus]_vars

\* command lines of `add` that name a branch, a commit or a tag no
\* repository has
UnknownPinInputs ==
  { AddArgs(UB, SRC_ALL, D_b, "gone", Null, Null),
    AddArgs(UA, SRC_I, D_c, "master", Null, "gone"),
    AddArgs(UB, SRC_L, D_b, Null, "gone", Null) }

\* updates, and between them the addition of an external with such a pin
NextTypo ==
  \/ \E rec \in BOOLEAN : gitext_update(rec)
  \/ UpdateStep
  \/ \E a \in UnknownPinInputs : gitext_add(a)

SpecTypo == Init /\ [][NextTypo]_vars

\* root manifests with two references whose last path segment is the same
SameNameManifests ==
  { M2(UA, Br("master", Null, T1(SRC_ALL, <<D_a>>)),
       UC, Br("dev", Null, T1(SRC_ALL, <<D_c>>))),
    M2(UA, Br("master", Null, T1(SRC_L, <<D_ab>>)),
       UC, Br("master", "c1", T1(SRC_I, <<D_c>>))),
    M2(UB, Br("master", Null, T1(SRC_ALL, <<D_ab>>)),
       UC, Tg("v1", T1(SRC_ALL, <<D_c>>))) }

\* the manifest file declares such references, as add has written it
InitNames ==
  /\ order \in {<<UA, UC, UB>>, <<UC, UA, UB>>, <<UB, UC, UA>>}
  /\ manifest \in SameNameManifests
  /\ mfile = File(dump_gitexts(manifest))
  /\ InitWorld

\* updates of such manifests, between them local modifications
NextNames ==
  \/ \E rec \in BOOLEAN : gitext_update(rec)
  \/ UpdateStep
  \/ \E c \in {ROOT} \cup DOMAIN co : Modify(c)

SpecNames == InitNames /\ [][NextNames]_vars

(***************************************************************************)
(* Loading and saving the manifest file, whoever wrote it.                 *)
(***************************************************************************)
\* json.dump(gitexts, fd, indent=4) as the gittify script of the repository
\* root writes git_externals.json: the members in dict order
dump_unsorted(m) ==
  [k \in 1..Len(Keys(m)) |-> Member(UrlText(Keys(m)[k]), EntryMembers(m[Keys(m)[k]]))]

\* the manifest file is as dump_gitexts or as that script wrote it
InitJson ==
  /\ order \in Orders
  /\ manifest \in InitManifests
  /\ mfile \in {File(dump_gitexts(manifest)), File(dump_unsorted(manifest))}
  /\ InitWorld

\* the command lines of `add` that name a target the manifest m already has
Resaves(m) ==
  UNION {UNION {{AddArgs(u, s, d,
                         IF m[u].branch = NoKey THEN Null ELSE m[u].branch,
                         IF m[u].tag = NoKey THEN Null ELSE m[u].tag,
                         IF m[u].ref = NoKey THEN Null ELSE m[u].ref) :
                 d \in Range(m[u].targets[s])} :
                s \in DOMAIN m[u].targets} :
         u \in DOMAIN m}

\* commands that load the manifest file and save it
NextJson ==
  \/ \E a \in Resaves(manifest) : gitext_add(a)
  \/ \E a \in AddInputs : gitext_add(a)

SpecJson == InitJson /\ [][NextJson]_vars

(***************************************************************************)
(* Vocabulary of the properties.                                           *)
(***************************************************************************)
\* an update has ended and nothing was edited, modified or killed since
JustFinished == pc = "idle" /\ runs > 0 /\ touched = {}
\* the log is the log of a run over the manifest as it is now
RunView == pc # "idle" \/ JustFinished
\* that update went through both guards and ended with status 0
Succeeded == JustFinished /\ last.acted /\ exit = 0

Pin(ext) == <<ext.branch, ext.ref, ext.tag>>
Site(u, ext) == [url |-> u, pin |-> Pin(ext)]
Conflicting(sites) == \E s \in sites, t \in sites : s.url = t.url /\ s.pin # t.pin

\* the call sites of the manifest forest: the root manifest and the manifest
\* committed in every repository reachable from it, checked out or not
RECURSIVE ForestSites(_)
ForestSites(m) ==
  UNION {{Site(u, m[u])} \cup ForestSites(RemoteManifest(normalize_gitext_url(u))) :
         u \in DOMAIN m}
ForestConflict == Conflicting(ForestSites(manifest))

\* the call sites of the manifests that are on disk: the root manifest and
\* the manifest in every checkout the recursive traversal reaches
DiskVisits(rec) == ForeachFrom(ROOT, Keys(load_gitexts(ROOT)), rec)
DiskSites == {Site(v.url, v.ext) : v \in Range(DiskVisits(TRUE))}
DiskConflict == Conflicting(DiskSites)

\* the root, or a checkout the traversal with flag rec visits, is modified
DirtyVisited(rec) ==
  \/ rootDirty
  \/ \E v \in Range(DiskVisits(rec)) : v.path \in DOMAIN co /\ co[v.path].dirty

\* the destinations the root manifest declares, and where they are
RootDsts ==
  UNION {UNION {Range(manifest[u].targets[s]) : s \in DOMAIN manifest[u].targets} :
         u \in DOMAIN manifest}
RootDstLocs == {Loc(ROOT, d) : d \in RootDsts}
\* where the destinations declared by any manifest on disk are
DeclaredLocs ==
  UNION {UNION {{Loc(Front(v.path), d) : d \in Range(v.ext.targets[s])} :
                s \in DOMAIN v.ext.targets} :
         v \in Range(DiskVisits(TRUE))}

(***************************************************************************)
(* C1: conflicting pins stop update in the sanity check.                   *)
(***************************************************************************)
\* C1 as stated: whenever the manifest forest pins one repository reference
\* differently at two call sites, an update that has ended has invoked no
\* command and no link operation, whatever is on disk
C1_ForestConflictStops == (JustFinished /\ ForestConflict) => log = <<>>

\* C1: when the manifests on disk (the root manifest and the manifests of
\* the checkouts the recursive traversal reaches) pin one repository
\* reference differently at two call sites, the sanity check ends update
\* with a non-zero status, no command or link operation logged and the disk
\* as it was
C1_DiskConflictStops ==
  [][(pc = "sanity" /\ DiskConflict)
       => (pc' = "idle" /\ exit' # 0 /\ log' = <<>> /\ ~last'.acted /\ UNCHANGED disk)]_vars

\* an update stopped by a conflict between the root manifest and the
\* manifest of a checkout
C1_Witness ==
  /\ JustFinished /\ DiskConflict /\ co # <<>>
  /\ exit = 1 /\ log = <<>> /\ ~last.acted
  /\ \A u \in DOMAIN manifest : manifest[u].tag = NoKey

(***************************************************************************)
(* C2: the dirty guard.                                                    *)
(***************************************************************************)
\* C2 as stated: when the root or the checkout of any external of the
\* forest on disk is modified, update invokes no command and no link
\* operation
C2_AnyDirtyStops == (JustFinished /\ DirtyVisited(TRUE)) => log = <<>>

\* C2: when the root, or the checkout of an external that the traversal
\* visits under the recursive flag of the run, is modified, update invokes
\* no clone, fetch, checkout or pull and removes or creates no link
C2_VisitedDirtyStops ==
  (JustFinished /\ DirtyVisited(recursive)) => (log = <<>> /\ ~last.acted)

\* update refused because the checkout of an external, not the root, is
\* modified
C2_Witness ==
  /\ JustFinished /\ ~rootDirty /\ DirtyVisited(recursive)
  /\ ~DiskConflict /\ exit = 0 /\ ~last.acted /\ log = <<>>

(***************************************************************************)
(* C3: links of earlier passes.                                            *)
(***************************************************************************)
\* C3 as stated: after a successful pass every link made by an earlier pass
\* is at a destination some manifest on disk still declares
C3_NoStaleLink ==
  Succeeded => \A p \in DOMAIN links : links[p].run < runs => p \in DeclaredLocs

\* C3: after a successful pass every destination the root manifest declares
\* holds a link made by this pass, so no link of an earlier pass survives at
\* a declared destination; links at other places are left as they were
C3_DeclaredLinksFresh ==
  Succeeded =>
    /\ \A p \in RootDstLocs : p \in DOMAIN links /\ links[p].run = runs
    /\ \A p \in DOMAIN prev.links :
         (p.co = ROOT /\ p \notin RootDstLocs) =>
           (p \in DOMAIN links /\ links[p].target = prev.links[p])

\* a successful second pass that left a link of the first pass at a
\* destination no longer declared, next to fresh links
C3_Witness ==
  /\ Succeeded /\ runs = 2 /\ RootDsts # {}
  /\ \E p \in DOMAIN links : links[p].run < runs /\ p \notin DeclaredLocs

(***************************************************************************)
(* C4: the order of link removal and creation.                             *)
(***************************************************************************)
\* destination p is a path ancestor of destination q
Ancestor(p, q) ==
  LET a == NormComps(p)
      b == NormComps(q)
  IN Len(a) < Len(b) /\ SubSeq(b, 1, Len(a)) = a

\* C4: among the link operations of one level of one run, whenever one
\* destination is a path ancestor of another, the descendant is removed
\* before the ancestor and the ancestor is created before the descendant
C4_AncestorOrder ==
  \A i \in 1..Len(log) : \A j \in 1..Len(log) :
    (/\ log[i].op \in {"rm", "link"}
     /\ log[j].op = log[i].op
     /\ log[j].co = log[i].co
     /\ Ancestor(log[i].arg, log[j].arg))
    => IF log[i].op = "link" THEN i < j ELSE j < i

(***************************************************************************)
(* C5: update twice in succession.                                         *)
(***************************************************************************)
\* the last two updates ran one after the other with the same flag, nothing
\* edited or modified in between
TwiceInSuccession ==
  /\ JustFinished /\ runs >= 2
  /\ last.since = {}
  /\ prev.recursive = last.recursive

\* C5: after the second of two successive updates the links (destination ->
\* source) and the checked-out revisions are those the first left; when the
\* first succeeded and the guards let the second through, it succeeds too
C5_Idempotent ==
  TwiceInSuccession =>
    /\ last.links = prev.links
    /\ last.heads = prev.heads
    /\ (prev.acted /\ prev.exit = 0 /\ last.acted) => last.exit = 0

\* a second update that removed and re-made links, one of them below
\* another, and ended where the first had
C5_Witness ==
  /\ TwiceInSuccession /\ prev.acted /\ prev.exit = 0 /\ last.acted /\ last.exit = 0
  /\ last.links = prev.links /\ last.heads = prev.heads
  /\ \E i \in 1..Len(log) : \E j \in 1..Len(log) :
       /\ log[i].op = "rm" /\ log[j].op = "link"
       /\ \E k \in 1..Len(log) : log[k].op = "link" /\ Ancestor(log[k].arg, log[j].arg)

(***************************************************************************)
(* C6: update after an interrupted update.                                 *)
(***************************************************************************)
\* root manifests whose first update, left to run, succeeds when libA's own
\* manifest pins libB as the root does
RunsClean ==
  { M1(UB, Br("master", Null, T1(SRC_ALL, <<D_ab>>))),
    M1(UA, Br("master", Null, T1(SRC_L, <<D_ab>>))),
    M1(UA, Br("master", Null, T2(SRC_ALL, <<D_a>>, SRC_L, <<D_dotdotb>>))),
    M2(UA, Br("master", Null, T1(SRC_ALL, <<D_ab>>)),
       UB, Br("master", Null, T1(SRC_L, <<D_abc, D_dotc>>))) }

\* the uninterrupted first update of those manifests ends with status 0
C6_Baseline ==
  (JustFinished /\ runs = 1 /\ last.since = {} /\ ~rootDirty
     /\ remote = WorldPlain /\ manifest \in RunsClean)
  => (last.acted /\ exit = 0)

\* C6: the complete update that follows an update killed after any step
\* succeeds, for manifests whose uninterrupted update succeeds
C6_ResumeSucceeds ==
  (JustFinished /\ last.since = {"kill"} /\ remote = WorldPlain /\ manifest \in RunsClean)
  => (last.acted /\ exit = 0)

(***************************************************************************)
(* C7: what the links point to.                                            *)
(***************************************************************************)
\* location t exists once links are followed (the link to it does not dangle)
Resolves(t) == Exists(t.co, t.rel)

\* C7: after a successful pass every destination declared for a checked-out
\* external of the root manifest is a link to the declared source inside the
\* checkout of that external, and the link does not dangle
C7_LinksSound ==
  Succeeded =>
    \A u \in DOMAIN manifest : \A s \in DOMAIN manifest[u].targets :
      \A k \in 1..Len(manifest[u].targets[s]) :
        LET name == <<get_repo_name(u)>>
            p == Loc(ROOT, manifest[u].targets[s][k])
        IN name \in DOMAIN co =>
             /\ p \in DOMAIN links
             /\ links[p].target = Path(name, NormComps(s))
             /\ Resolves(links[p].target)

(***************************************************************************)
(* C8: full clone or sparse checkout.                                      *)
(***************************************************************************)
\* log entry k is about a checkout of the root level
RootEvent(k) == Len(log[k].co) = 1
\* the sources the root manifest declares for the external checked out at c
SrcsOf(c) ==
  DOMAIN manifest[CHOOSE u \in DOMAIN manifest : <<get_repo_name(u)>> = c].targets
\* the text of the lines of .git/info/sparse-checkout in checkout c
PatternTexts(c) == {co[c].patterns[k].text : k \in 1..Len(co[c].patterns)}

\* C8 as stated: an absent checkout is made by a full clone exactly when
\* every declared source is the whole tree, by a sparse checkout when some
\* source is a strict subset; the pattern list names the declared sources
\* and the manifest file
C8_SparseIffAnySubset ==
  RunView =>
    \A k \in 1..Len(log) : RootEvent(k) =>
      /\ log[k].op = "clone" => SrcsOf(log[k].co) = {SRC_ALL}
      /\ log[k].op = "init" => SrcsOf(log[k].co) # {SRC_ALL}
      /\ log[k].op = "sparsefile" =>
           PatternTexts(log[k].co) =
             {<<"git_externals.json">>} \cup {DirPattern(d).text : d \in SrcsOf(log[k].co)}

\* C8: an absent checkout is made by a full clone when "./" is one of the
\* declared sources and by a sparse checkout when it is none of them; the
\* sparse pattern list is the absolute path of the manifest followed by one
\* line per declared source
C8_SparseIffNoWholeTree ==
  RunView =>
    \A k \in 1..Len(log) : RootEvent(k) =>
      /\ log[k].op = "clone" => SRC_ALL \in SrcsOf(log[k].co)
      /\ log[k].op = "init" => SRC_ALL \notin SrcsOf(log[k].co)
      /\ log[k].op = "sparsefile" =>
           LET ps == co[log[k].co].patterns IN
           /\ Len(ps) = 1 + Cardinality(SrcsOf(log[k].co))
           /\ ps[1] = ManifestPattern(log[k].co) /\ ps[1].abs
           /\ {ps[n] : n \in 2..Len(ps)} = {DirPattern(d) : d \in SrcsOf(log[k].co)}

\* a full clone of an external one of whose sources is a strict subset
C8_Witness ==
  /\ Succeeded
  /\ \E k \in 1..Len(log) :
       /\ RootEvent(k) /\ log[k].op = "clone"
       /\ SrcsOf(log[k].co) # {SRC_ALL}

(***************************************************************************)
(* C9: the commands run in a checkout.                                     *)
(***************************************************************************)
\* the commands gitext_up is to run in the checkout of an external
Expected(ext) ==
  << <<"fetch", "--all">>, <<"fetch", "--tags">> >>
  \o (IF ext.tag # NoKey THEN << <<"checkout", ext.tag>> >>
      ELSE << <<"checkout", ext.branch>>, <<"pull", "origin", ext.branch>> >>
           \o (IF ext.ref # Null THEN << <<"checkout", ext.ref>> >> ELSE <<>>))

IsCmd(e) == e.op \in {"fetch", "checkout", "pull"}
IsSetup(e) == e.op \in {"clone", "init", "remote", "config", "sparsefile"}
CmdsAt(c) == SelectSeq(log, LAMBDA e : e.co = c /\ IsCmd(e))
\* the commands logged in checkout c
Cmds(c) == [k \in 1..Len(CmdsAt(c)) |-> CmdsAt(c)[k].arg]
IsPrefix(s, t) == Len(s) <= Len(t) /\ SubSeq(t, 1, Len(s)) = s

\* C9: in every checkout the commands run so far are the first of: fetch
\* --all, fetch --tags, then checkout of the tag, or else checkout of the
\* branch, pull of the branch and, when ref is not null, checkout of ref;
\* they come after the clone or sparse initialisation of the checkout; and a
\* successful run has run them all in every checkout of the root level
C9_CommandOrder ==
  RunView =>
    /\ \A v \in Range(DiskVisits(TRUE)) :
         /\ IsPrefix(Cmds(v.path), Expected(v.ext))
         /\ (Succeeded /\ Len(v.path) = 1) => Cmds(v.path) = Expected(v.ext)
    /\ \A i \in 1..Len(log) : \A j \in 1..Len(log) :
         (IsSetup(log[i]) /\ IsCmd(log[j]) /\ log[i].co = log[j].co) => i < j
    /\ \A i \in 1..Len(log) :
         IsCmd(log[i]) => \E v \in Range(DiskVisits(TRUE)) : v.path = log[i].co

\* all five commands have run in the checkout of a branch-pinned external
\* with a ref, and the three of a tag-pinned one in another checkout
C9_Witness ==
  /\ RunView
  /\ \E v \in Range(DiskVisits(TRUE)) :
       v.ext.tag = NoKey /\ v.ext.ref # Null /\ Len(Cmds(v.path)) = 5
  /\ \E v \in Range(DiskVisits(TRUE)) :
       v.ext.tag # NoKey /\ Len(Cmds(v.path)) = 3

(***************************************************************************)
(* C10: the first update of a one-external manifest.                       *)
(***************************************************************************)
\* one branch-pinned external whose only source is the whole tree
Scenario == M1(UB, Br("master", Null, T1(SRC_ALL, <<D_ab>>)))
FirstUpdateOfScenario ==
  JustFinished /\ runs = 1 /\ last.since = {} /\ manifest = Scenario
Milestone(e) == e.op \in {"clone", "init", "checkout", "rm", "link", "untrack"}
Milestones == SelectSeq(log, Milestone)

\* C10: from an empty disk the update of that manifest does, in this order,
\* one full clone, the checkout of the branch, the creation of the link from
\* the declared destination to the root of the checkout, and the writing of
\* the destination to the exclude file; it ends with status 0
C10_FirstUpdate ==
  FirstUpdateOfScenario =>
    /\ exit = 0
    /\ Milestones =
         << Ev("clone", <<"libB">>, <<"clone", "libB">>, NoPath),
            Ev("checkout", <<"libB">>, <<"checkout", "master">>, NoPath),
            Ev("link", ROOT, D_ab, Path(<<"libB">>, <<>>)),
            Ev("untrack", ROOT, <<>>, NoPath) >>
    /\ links = (Path(ROOT, <<<<"a">>, <<"b">>>>) :>
                  [target |-> Path(<<"libB">>, <<>>), run |-> 1])
    /\ exclude = (ROOT :> <<D_ab>>)

\* that update has ended
C10_Witness ==
  /\ FirstUpdateOfScenario /\ exit = 0 /\ Len(log) = 7
  /\ DOMAIN co = {<<"libB">>} /\ co[<<"libB">>].head = "master"

(***************************************************************************)
(* C11: the exclude file.                                                  *)
(***************************************************************************)
\* the destinations linked at level c in this run, in the order of linking
LinkedAt(c) == SelectSeq(log, LAMBDA e : e.op = "link" /\ e.co = c)
\* the destinations of the manifest loaded at level c as the run saw them:
\* every one of them was linked before the exclude file was written
DstsAt(c) == {LinkedAt(c)[k].arg : k \in 1..Len(LinkedAt(c))}
\* the level c of this run has written its exclude file
LevelDone(c) == RunView /\ \E k \in 1..Len(log) : log[k].op = "untrack" /\ log[k].co = c

\* every leading "./" of p removed
RECURSIVE StripMarkers(_)
StripMarkers(p) ==
  IF StartsWith(p, <<".", "/">>) THEN StripMarkers(SubSeq(p, 3, Len(p))) ELSE p
\* one leading "./" of p removed
StripOne(p) == IF Len(p) >= 2 /\ p[1] = "." /\ p[2] = "/" THEN Tail(Tail(p)) ELSE p

\* C11 as stated: once update has finished a level, the exclude file of
\* that level holds exactly the destinations projected at that level, one
\* per line, with the leading current-directory markers removed, and no
\* line begins with "./"
C11_NoLeadingMarker ==
  \A c \in {ROOT} \cup DOMAIN co : LevelDone(c) =>
    /\ Range(exclude[c]) = {StripMarkers(d) : d \in DstsAt(c)}
    /\ Len(exclude[c]) = Len(LinkedAt(c))
    /\ \A k \in 1..Len(exclude[c]) : ~StartsWith(exclude[c][k], <<".", "/">>)

\* what does hold: once update has finished a level, the exclude file of that level
\* holds exactly the destinations projected at that level, one per line,
\* each with one leading "./" removed if it has one, and nothing of what the
\* file held before
C11_OneMarkerRemoved ==
  \A c \in {ROOT} \cup DOMAIN co : LevelDone(c) =>
    /\ Range(exclude[c]) = {StripOne(d) : d \in DstsAt(c)}
    /\ Len(exclude[c]) = Len(LinkedAt(c))

\* a second run rewrote the exclude file of the root with other lines than
\* the first had left, one of them a destination spelled with "./"
C11_Witness ==
  /\ Succeeded /\ runs = 2 /\ LevelDone(ROOT)
  /\ ROOT \in DOMAIN prev.exclude
  /\ Range(prev.exclude[ROOT]) \ Range(exclude[ROOT]) # {}
  /\ \E d \in DstsAt(ROOT) : StartsWith(d, <<".", "/">>) /\ StripOne(d) \in Range(exclude[ROOT])

(***************************************************************************)
(* C12: the error report of the sanity check.                              *)
(***************************************************************************)
\* the visits whose pin differs from the pin of another visit of the same
\* reference
ConflictingVisits ==
  {v \in Range(DiskVisits(TRUE)) :
     \E w \in Range(DiskVisits(TRUE)) : w.url = v.url /\ Pin(w.ext) # Pin(v.ext)}

\* C12: when the sanity check is about to run over a conflict, between
\* branch pins or between tag pins, its error report has, for every
\* conflicting call site, a line with the path of that site and its pin
C12_ReportListsSites ==
  (pc = "sanity" /\ DiskConflict) =>
    \A v \in ConflictingVisits :
      \E l \in SanityReport :
        l.url = v.url /\ l.path = v.path /\ <<l.branch, l.ref, l.tag>> = Pin(v.ext)

(***************************************************************************)
(* C13: when the sanity check passes.                                      *)
(***************************************************************************)
\* C13: the sanity check passes exactly when every reference of the
\* traversed forest has one pin, a pin being (branch, ref) or (tag); a
\* forest with tag-pinned entries and no conflict passes
C13_PassesIffOnePin ==
  pc = "sanity" => (externals_sanity_check = "passed" <=> ~DiskConflict)

(***************************************************************************)
(* C14: the exit status of a refusal.                                      *)
(***************************************************************************)
\* the update that has just ended was refused by the dirty guard
Refused ==
  /\ JustFinished /\ ~last.acted /\ mfile.present /\ ~reset
  /\ externals_sanity_check = "passed"
  /\ DirtyVisited(recursive)

\* C14 as stated: an update refused because of local modifications ends
\* with a non-zero status
C14_RefusalNonZero == Refused => exit # 0

\* C14: an update refused because of local modifications has invoked no
\* command and no link operation and ends with status 0
C14_RefusalExitsZero == Refused => (exit = 0 /\ log = <<>>)

\* an update refused because the checkout of an external is modified
C14_Witness == Refused /\ ~rootDirty /\ exit = 0 /\ co # <<>>

(***************************************************************************)
(* C15: update --reset and the dirty guard.                                *)
(***************************************************************************)
\* C15: in reset mode the step that looks at the clean flags always goes on
\* to gitext_up, whatever the root and the checkouts hold; the update is
\* never refused
C15_ResetNotBlocked ==
  [][(pc = "clean" /\ reset) => (pc' = "up" /\ stack' # <<>>)]_vars

\* an update in reset mode has started to resolve the externals although the
\* checkout of an external is modified
C15_Witness ==
  /\ reset /\ InUp("probe") /\ Len(stack) = 1 /\ Top.i = 1
  /\ log # <<>> /\ log[1].op = "reset"
  /\ \E v \in Range(DiskVisits(recursive)) : v.path \in DOMAIN co /\ co[v.path].dirty

(***************************************************************************)
(* C16: load and save of the manifest file.                                *)
(***************************************************************************)
\* the object the program works on is the object the file holds
ManifestIsLoadedFile == manifest = IF mfile.present THEN json_load(mfile.text) ELSE M0

\* the keys of the members are in ascending order, at every level
AscendingKeys(members) ==
  \A k \in 2..Len(members) : StrLess(members[k - 1].key, members[k].key)
\* the keys of the manifest, of every entry and of every targets object
\* are in ascending order
Ascending(text) ==
  /\ AscendingKeys(text)
  /\ \A k \in 1..Len(text) :
       /\ AscendingKeys(text[k].val)
       /\ AscendingKeys(Lookup(text[k].val, F_targets))

\* C16 as stated: a command that loads the manifest file and saves it with
\* nothing changed in between writes the text that was there, for every
\* manifest file, and the keys of what it writes are sorted
C16_Identical ==
  [][(edits' = edits + 1 /\ exit' = 0 /\ mfile.present /\ manifest' = json_load(mfile.text))
       => (mfile'.text = mfile.text /\ Ascending(mfile'.text))]_vars

\* C16: a command that loads the manifest file and saves it writes a text
\* whose keys are sorted at every level, which is the same whatever the
\* order in which the keys were inserted, and which loads as the object
\* saved; when nothing was changed in between and the file had been written
\* by save, the text written is the text that was there
C16_RoundTrip ==
  [][(edits' = edits + 1 /\ exit' = 0) =>
       /\ mfile'.present /\ Ascending(mfile'.text)
       /\ \A o \in Orders : json_dump_in(o, manifest') = mfile'.text
       /\ json_load(mfile'.text) = manifest'
       /\ (mfile.present /\ manifest' = json_load(mfile.text) /\ Ascending(mfile.text))
            => mfile'.text = mfile.text]_vars

\* a file of two references written with the later key first has been
\* loaded and saved unchanged
C16_Witness ==
  /\ edits = 1 /\ exit = 0 /\ mfile.present
  /\ order = <<UB, UA>> /\ DOMAIN manifest = {UA, UB}
  /\ manifest \in InitManifests
  /\ mfile.text[1].key = UrlText(UA)

(***************************************************************************)
(* C17: the exit codes of the configuration errors.                        *)
(***************************************************************************)
\* a command starts without a manifest file
StartsWithoutManifest ==
  /\ ~mfile.present
  /\ runs' = runs + 1 \/ \E u \in Urls : gitext_remove(u)
\* remove starts with a manifest file and without the externals storage
RemoveWithoutStorage ==
  mfile.present /\ ROOT \notin extroot /\ \E u \in Urls : gitext_remove(u)
\* the sanity check of update runs over a conflict it detects
SanityOverConflict == pc = "sanity" /\ externals_sanity_check = "conflict"

\* C17 as stated: the exit codes for a missing manifest, for missing
\* externals storage and for a sanity-check conflict are non-zero and
\* differ from one another
C17_DistinctCodes ==
  [][/\ StartsWithoutManifest => exit' \notin {0, MissingStorageExit, ConflictExit}
     /\ RemoveWithoutStorage => exit' \notin {0, MissingManifestExit, ConflictExit}
     /\ SanityOverConflict => exit' \notin {0, MissingManifestExit, MissingStorageExit}]_vars

\* C17: the process ends with status 1 for a missing manifest, with status
\* 2 for missing externals storage and with status 1 for a sanity-check
\* conflict, in each case with the manifest and the disk as they were
C17_ExitCodes ==
  [][/\ StartsWithoutManifest => (exit' = 1 /\ pc' = "idle" /\ UNCHANGED <<manifest, mfile, disk>>)
     /\ RemoveWithoutStorage => (exit' = 2 /\ pc' = "idle" /\ UNCHANGED <<manifest, mfile, disk>>)
     /\ SanityOverConflict => (exit' = 1 /\ pc' = "idle" /\ UNCHANGED <<manifest, mfile, disk>>)]_vars

\* remove was refused for want of the externals storage
C17_Witness ==
  /\ pc = "idle" /\ edits = 1 /\ exit = 2
  /\ mfile.present /\ ROOT \notin extroot /\ manifest \in InitManifests

AskedPin(a) ==
  IF a.branch # Null THEN <<a.branch, a.ref, NoKey>> ELSE <<NoKey, NoKey, a.tag>>

\* C19: add for an external the manifest has, with a branch, a tag or a ref
\* other than the stored pin, ends with status 4 and leaves the manifest
\* file as it was; add with neither branch nor tag ends with status 3 and
\* leaves the manifest file as it was
C19_AddRejectsOtherPin ==
  [][\A a \in AddInputs : gitext_add(a) =>
       /\ (a.branch = Null /\ a.tag = Null)
            => (exit' = 3 /\ UNCHANGED <<manifest, mfile>>)
       /\ (/\ ~(a.branch = Null /\ a.tag = Null)
           /\ mfile.present /\ a.external \in DOMAIN manifest
           /\ AskedPin(a) # Pin(manifest[a.external]))
            => (exit' = 4 /\ UNCHANGED <<manifest, mfile>>)]_vars

(***************************************************************************)
(* C20: the working directory of the process.                              *)
(***************************************************************************)
\* the top call of gitext_up is inside `with chdir(externals_root_path())`
\* only, or also inside `with chdir(repo_name)`
InExt(f) == f.pc \in {"clone", "init", "remote", "resetco", "fetchall"}
InRepo(f) == f.pc \in {"config", "sparsefile", "fetchtags", "checkout", "pull", "coref"}

\* the directory each block in progress was entered from, outermost first:
\* one block per recursive call, then those of the top call
NestedScopes ==
  [i \in 1..(Len(stack) - 1) |-> Wt(stack[i].co)]
  \o (IF InExt(Top) \/ InRepo(Top) THEN <<Wt(Top.co)>> ELSE <<>>)
  \o (IF InRepo(Top) THEN <<ExtDir(Top.co)>> ELSE <<>>)

\* the directory the innermost block in progress entered
InnermostDir ==
  IF InRepo(Top) THEN Wt(CurCo)
  ELSE IF InExt(Top) THEN ExtDir(Top.co)
  ELSE Wt(Top.co)

NestedCalls ==
  /\ \A i \in 1..Len(stack) : Len(stack[i].co) = i - 1
  /\ \A i \in 2..Len(stack) :
       /\ Front(stack[i].co) = stack[i - 1].co
       /\ stack[i].co \in DOMAIN co
       /\ \E u \in DOMAIN stack[i - 1].exts : Last(stack[i].co) = get_repo_name(u)
       /\ \A k \in 1..(Len(stack[i].co) - 1) : stack[i].co[k] # Last(stack[i].co)
\* the traversal of the sanity check and of the dirty check: every path it
\* visits is in the externals storage of the root or of a path it visits
NestedVisits ==
  \A v \in Range(DiskVisits(TRUE)) :
    /\ Len(v.path) <= Cardinality(Urls)
    /\ Front(v.path) = ROOT \/ \E w \in Range(DiskVisits(TRUE)) : w.path = Front(v.path)

\* C21: over the manifest forests of the model, which are finite and have
\* no reference cycle, every update that has started ends, and while it
\* runs the recursion of gitext_up and the traversals of the sanity check
\* and of the dirty check only go into checkouts nested in the externals
\* storage of the level they are at
C21_Terminates ==
  /\ [](NestedCalls /\ NestedVisits)
  /\ (pc # "idle") ~> (pc = "idle")

\* a recursive update has ended with status 0 after a nested call of
\* gitext_up cloned an external of an external and wrote the exclude file
\* of its level
C21_Witness ==
  /\ Succeeded /\ recursive
  /\ <<"libA", "libB">> \in DOMAIN co
  /\ \E k \in 1..Len(log) : log[k].op = "untrack" /\ log[k].co = <<"libA">>

(***************************************************************************)
(* C22: the failure of a git command during update.                        *)
(***************************************************************************)
\* the exit status of the git command the running update is about to run,
\* when that command fails; 0 when the next step is no failing git command
FailingCode ==
  IF InUp("fetchtags") /\ FetchTagsFails(co[CurCo]) THEN GitFatalExit
  ELSE IF InUp("checkout") /\ CheckoutFails(co[CurCo], PinTarget(CurExt)) THEN GitErrorExit
  ELSE IF InUp("pull") /\ PullFails(co[CurCo]) THEN GitFatalExit
  ELSE IF InUp("coref") /\ CheckoutFails(co[CurCo], CurExt.ref) THEN GitErrorExit
  ELSE 0
\* the running update takes its next step
Steps == pc = "up" /\ log' # log

\* C22: when a git command fails for an external during update, nothing
\* more is done for that external (no later command, link or recursive
\* call: the update ends there with the disk as it was), and the process
\* exits non-zero with the exit status of the failed command
C22_ExitsWithChildCode ==
  [][(FailingCode # 0 /\ Steps) =>
       /\ pc' = "idle" /\ stack' = <<>> /\ UNCHANGED disk
       /\ Len(log') = Len(log) + 1
       /\ exit' # 0 /\ exit' = FailingCode]_vars

\* what does hold: the update ends at the failed command with a non-zero
\* status, which is the status of the failed command under the
\* gitext_update that catches ProgError and 1 under the gitext_update that
\* does not
C22_FailureStops ==
  [][(FailingCode # 0 /\ Steps) =>
       /\ pc' = "idle" /\ stack' = <<>> /\ UNCHANGED disk
       /\ Len(log') = Len(log) + 1
       /\ exit' # 0
       /\ exit' = IF reset THEN FailingCode ELSE UncaughtExit]_vars

\* an update that catches ProgError has ended with the status of the fetch
\* that failed
C22_CaughtFailure ==
  /\ JustFinished /\ reset /\ last.acted /\ exit = GitFatalExit
  /\ log # <<>> /\ log[Len(log)].op = "fetch"

(***************************************************************************)
(* C23: which entries of a nested manifest are resolved and projected.     *)
(***************************************************************************)
\* destination dst of the manifest of checkout c lies, component by
\* component, under the resolved location e
IsUnder(c, dst, e) ==
  IF e.co = c THEN IsPrefix(e.rel, NormComps(dst))
  ELSE e.rel = <<>> /\ Len(e.co) < Len(c) /\ SubSeq(c, 1, Len(e.co)) = e.co
UnderAny(c, dst, entries) == \E e \in Range(entries) : IsUnder(c, dst, e)

\* the nested call f of gitext_up has loaded its manifest
Loaded(f) == f.filter /\ f.pc # "load"
\* destination d of source s of external u is among those f resolves
Kept(f, u, s, d) ==
  /\ u \in DOMAIN f.exts
  /\ s \in DOMAIN f.exts[u].targets
  /\ d \in Range(f.exts[u].targets[s])

\* C23: in a nested call of gitext_up, a destination of the manifest of
\* that external is kept for resolution and projection exactly when it lies,
\* component by component, under one of the resolved destinations through
\* which the caller projects the external; every link made at that level
\* is at such a destination, and every command run in a checkout of that
\* level is for an external that has one
C23_KeptIffUnder ==
  \A i \in 2..Len(stack) : Loaded(stack[i]) =>
    LET f == stack[i]
        all == load_gitexts(f.co)
    IN /\ \A u \in DOMAIN all : \A s \in DOMAIN all[u].targets :
            \A d \in Range(all[u].targets[s]) :
              Kept(f, u, s, d) <=> UnderAny(f.co, d, f.entries)
       /\ \A k \in 1..Len(log) :
            /\ (log[k].op = "link" /\ log[k].co = f.co)
                 => UnderAny(f.co, log[k].arg, f.entries)
            /\ ((IsCmd(log[k]) \/ IsSetup(log[k])) /\ Front(log[k].co) = f.co)
                 => \E u \in DOMAIN all :
                      /\ get_repo_name(u) = Last(log[k].co)
                      /\ \E s \in DOMAIN all[u].targets :
                           \E d \in Range(all[u].targets[s]) :
                             UnderAny(f.co, d, f.entries)

\* what does hold: a destination is kept exactly when the string of its
\* absolute path begins with the string of one of the resolved destinations
C23_KeptIffStringPrefix ==
  \A i \in 2..Len(stack) : Loaded(stack[i]) =>
    LET f == stack[i]
        all == load_gitexts(f.co)
    IN \A u \in DOMAIN all : \A s \in DOMAIN all[u].targets :
         \A d \in Range(all[u].targets[s]) :
           Kept(f, u, s, d) <=> \E e \in Range(f.entries) : AbsStartsWith(f.co, d, e)

(***************************************************************************)
(* C24: add and remove leave the other entries alone.                      *)
(***************************************************************************)
\* every entry but that of `external` is after the step what it was before
OthersKept(external) ==
  \A u \in DOMAIN manifest \ {external} : u \in DOMAIN manifest' /\ manifest'[u] = manifest[u]

\* C24: add and remove, run from the top of the working tree or from any
\* directory below it, leave every entry of the manifest but the one named
\* on the command line as it was
C24_OthersUnchanged ==
  [][/\ \A dir \in UserDirs : \A a \in AddInputs :
          gitext_add_in(dir, a) => OthersKept(a.external)
     /\ \A dir \in UserDirs : \A u \in Urls :
          gitext_remove_in(dir, u) => OthersKept(u)]_vars

\* what does hold: run from the top of the working tree, add and remove
\* leave the other entries as they were; run from a directory below it,
\* they write the manifest they would write if the file were empty
C24_OthersUnchangedAtTop ==
  [][/\ \A a \in AddInputs : gitext_add(a) => OthersKept(a.external)
     /\ \A u \in Urls : gitext_remove(u) => OthersKept(u)
     /\ \A a \in AddInputs :
          (gitext_add_in(SubDir, a) /\ exit' = 0) => manifest' = AddResult(M0, a)
     /\ \A u \in Urls :
          (gitext_remove_in(SubDir, u) /\ exit' = 0) => manifest' = M0]_vars

(***************************************************************************)
(* C25: one checkout directory per repository reference.                   *)
(***************************************************************************)
\* the checkout directory of reference u at the level of checkout c
CheckoutDir(c, u) == Append(c, get_repo_name(normalize_gitext_url(u)))
\* the top call of gitext_up is running the commands of an external in a
\* checkout that was cloned from, or given the remote of, some repository
InCommands ==
  /\ pc = "up" /\ stack # <<>>
  /\ Top.pc \in {"fetchall", "fetchtags", "checkout", "pull", "coref"}
  /\ CurCo \in DOMAIN co /\ co[CurCo].origin

\* C25: the references of one manifest level have pairwise distinct
\* checkout directories, and the fetch, checkout and pull of an external
\* run in the checkout of its own repository
C25_DistinctCheckouts ==
  /\ \A i \in 1..Len(stack) : \A u \in DOMAIN stack[i].exts : \A v \in DOMAIN stack[i].exts :
       u # v => CheckoutDir(stack[i].co, u) # CheckoutDir(stack[i].co, v)
  /\ InCommands => co[CurCo].url = normalize_gitext_url(CurUrl)

\* what does hold: references with distinct names (the last path segment,
\* ".git" stripped) have distinct checkout directories, references with the
\* same name have the same
C25_OneCheckoutPerName ==
  \A i \in 1..Len(stack) : \A u \in DOMAIN stack[i].exts : \A v \in DOMAIN stack[i].exts :
    CheckoutDir(stack[i].co, u) = CheckoutDir(stack[i].co, v)
      <=> get_repo_name(u) = get_repo_name(v)

(***************************************************************************)
(* C26: commands, then link removals, then link creations.                 *)
(***************************************************************************)
\* the run has ended at a git command that failed
EndedAtCommand ==
  /\ JustFinished /\ last.acted /\ exit # 0
  /\ log # <<>> /\ IsCmd(log[Len(log)])
\* the level at which it failed
FailedLevel == Front(log[Len(log)].co)
\* the links on disk, by what they point to
LinkMap == [p \in DOMAIN links |-> links[p].target]

\* C26: at each level of update every command of every external of the
\* level has run before the first link of the level is removed, and every
\* removal of the level comes before every creation of the level; an
\* update that ends at a failed git command has removed and created no
\* link of that level, and when that level is the root the links on disk
\* are those the previous update left
C26_CommandsThenLinks ==
  RunView =>
    /\ \A i \in 1..Len(log) : \A j \in 1..Len(log) :
         /\ ((IsCmd(log[i]) \/ IsSetup(log[i])) /\ log[j].op \in {"rm", "link"}
              /\ Front(log[i].co) = log[j].co) => i < j
         /\ (log[i].op = "rm" /\ log[j].op = "link" /\ log[i].co = log[j].co) => i < j
    /\ \A i \in 1..Len(stack) :
         (pc = "up" /\ stack[i].pc \in {"rm", "ln", "rec", "untrack"}) =>
           \A u \in DOMAIN stack[i].exts :
             Cmds(CheckoutDir(stack[i].co, u)) = Expected(stack[i].exts[u])
    /\ EndedAtCommand =>
         /\ \A k \in 1..Len(log) : log[k].op \in {"rm", "link"} => log[k].co # FailedLevel
         /\ FailedLevel = ROOT => LinkMap = prev.links

\* the second update has ended at a checkout that failed, after the
\* commands of another external of the root went through, and the links the
\* first update made are on disk as it left them
C26_Witness ==
  /\ EndedAtCommand /\ runs = 2 /\ FailedLevel = ROOT
  /\ log[Len(log)].op = "checkout"
  /\ \E k \in 1..Len(log) : log[k].op = "pull" /\ log[k].co # log[Len(log)].co
  /\ links # <<>> /\ LinkMap = prev.links
  /\ \A p \in DOMAIN links : links[p].run = 1

(***************************************************************************)
(* C27: the `only` filter of foreach_externals.                            *)
(***************************************************************************)
\* the checkouts the last status command called its callback in
StatusPaths == {log[k].co : k \in {n \in 1..Len(log) : log[n].op = "status"}}
\* the externals of the forest on disk whose checkout directory exists
OnDisk == {v \in Range(DiskVisits(TRUE)) : HasCheckout(v.path)}
\* some expression of only is a substring of the reference or of the path
MatchesAny(only, v) ==
  \E k \in 1..Len(only) :
    Contains(UrlText(v.url), only[k]) \/ Contains(PathText(v.path), only[k])

\* C27: status with a non-empty list of expressions calls the callback for
\* an external exactly when some expression of the list is a substring of
\* its reference or of its path, with an empty list for every external; in
\* both cases nested externals are reached
C27_OnlyAnyExpression ==
  [][\A only \in OnlyLists : (gitext_st(only) /\ exit' = 0) =>
       StatusPaths' = {v.path : v \in {w \in OnDisk : only = <<>> \/ MatchesAny(only, w)}}]_vars

\* what does hold: the callback is called exactly when the first
\* expression of the list is a substring of the reference or of the path
C27_OnlyFirstExpression ==
  [][\A only \in OnlyLists : (gitext_st(only) /\ exit' = 0) =>
       StatusPaths' =
         {v.path : v \in {w \in OnDisk : only = <<>> \/ MatchesAny(<<only[1]>>, w)}}]_vars

\* status with an expression that matches a nested external only has
\* called the callback for it and not for the external above it
C27_NestedReached ==
  /\ pc = "idle" /\ "status" \in touched /\ exit = 0
  /\ StatusPaths = {<<"libA", "libB">>}

(***************************************************************************)
(* C28: the pin of a manifest entry.                                       *)
(***************************************************************************)
\* the entry has `tag` alone, or `branch` together with `ref`
OnePinForm(e) ==
  \/ e.tag # NoKey /\ e.branch = NoKey /\ e.ref = NoKey
  \/ e.tag = NoKey /\ e.branch # NoKey /\ e.ref # NoKey
\* the step is a remove command that names u
Removes(u) == \E dir \in UserDirs : RemoveCommand(dir, u)
\* the step is an add or remove command run from the top of the working tree
AtTop ==
  \/ \E a \in PinInputs : AddCommand(Home, a)
  \/ \E u \in Urls : RemoveCommand(Home, u)

\* C28: after any sequence of add and remove commands that starts from an
\* empty manifest every entry holds exactly one pin form, and the pin of an
\* entry never changes between its creation and its removal
C28_PinNeverChanges ==
  /\ [](\A u \in DOMAIN manifest : OnePinForm(manifest[u]))
  /\ [][\A u \in DOMAIN manifest \cap DOMAIN manifest' :
          Pin(manifest'[u]) # Pin(manifest[u]) => Removes(u)]_vars

\* what does hold: every entry holds exactly one pin form, and a command
\* run from the top of the working tree leaves the pin of every entry it
\* keeps as it was
C28_PinKeptAtTop ==
  /\ [](\A u \in DOMAIN manifest : OnePinForm(manifest[u]))
  /\ [][AtTop => \A u \in DOMAIN manifest \cap DOMAIN manifest' :
                    Pin(manifest'[u]) = Pin(manifest[u])]_vars

(***************************************************************************)
(* C29: the links an update made and the exclude files.                    *)
(***************************************************************************)
\* the links the last update created: level and destination as written in
\* the manifest of the level
CreatedAt ==
  {<<log[k].co, log[k].arg>> :
     k \in {n \in 1..Len(log) :
              /\ log[n].op = "link"
              /\ Loc(log[n].co, log[n].arg) \in DOMAIN links
              /\ links[Loc(log[n].co, log[n].arg)].run = runs}}
\* the exclude file of level c has the line untrack writes for dst
Listed(c, dst) == c \in DOMAIN exclude /\ Untracked(dst) \in Range(exclude[c])
\* the last update went into the recursion: something was done at a level
\* below the root
NestedEntered ==
  \E n \in 1..Len(log) :
    \/ log[n].op \in {"rm", "link", "untrack"} /\ Len(log[n].co) >= 1
    \/ log[n].op \notin {"rm", "link", "untrack", "status"} /\ Len(log[n].co) >= 2
\* the last update has returned with status 0, or with a failure after it
\* went into the recursion
Returned == JustFinished /\ exit # KilledExit /\ (exit = 0 \/ NestedEntered)

\* C29: when update has returned, successfully or after a failure in a
\* nested external, every link destination it created at a level is listed
\* in the exclude file of that level
C29_LinksExcluded == Returned => \A cd \in CreatedAt : Listed(cd[1], cd[2])

\* what does hold: the links of an update that returned with status 0 are
\* all listed
C29_LinksExcludedOnSuccess ==
  (Returned /\ exit = 0) => \A cd \in CreatedAt : Listed(cd[1], cd[2])

(***************************************************************************)
(* C30: the order in which link_entries goes through the destinations.     *)
(***************************************************************************)
\* the number of components of a destination
Depth(dst) == Len(NormComps(dst))
\* log[i] and log[j] are link operations of the same kind at the same level
SameLoop(i, j) ==
  /\ log[i].op \in {"rm", "link"}
  /\ log[j].op = log[i].op
  /\ log[j].co = log[i].co

====
